---- MODULE Spec2Model ----
(***************************************************************************)
(* Valthree: a Valkey-compatible key-value store whose whole database is   *)
(* one JSON object in an S3-compatible object store.  Server nodes share   *)
(* nothing but that object; writes are read-modify-write cycles guarded by *)
(* conditional PUTs on the object's ETag (internal/server/storage.go).     *)
(*                                                                         *)
(* The model has one process per client connection.  A connection's        *)
(* handler runs on the node the client dialled; its steps are the points   *)
(* where it touches shared state: the node's storage mutex and the object  *)
(* store.  Everything a handler does between two such points is local and  *)
(* is folded into the step that precedes it.                               *)
(***************************************************************************)
EXTENDS Integers, Sequences, FiniteSets, TLC

\* ------------------------------------------------------------------ bounds

\* Commands issued in one behaviour, over all clients.
MaxOps == 3
\* Object-store failures injected in one behaviour.
MaxFaults == 1
\* The largest Config.MaxItems (--max-keys) a cluster is configured with.
MaxMaxItems == 2

Nodes == 0..1
Clients == 0..1
Keys == {"bar", "foo"}
\* Keys in the order json.Marshal writes a map's members (sorted).
KeyOrder == <<"bar", "foo">>
Values == {"A", "B"}

\* ------------------------------------------------------------ map[string]string

EmptyDB == [k \in {} |-> ""]
len(items) == Cardinality(DOMAIN items)
MapSet(items, k, v) == [x \in (DOMAIN items) \cup {k} |-> IF x = k THEN v ELSE items[x]]
MapDelete(items, k) == [x \in (DOMAIN items) \ {k} |-> items[x]]
MapCopy(items) == [x \in DOMAIN items |-> items[x]]

\* json.Marshal of a map[string]string: the members, ordered by key.
Marshal(items) ==
  LET ks == SelectSeq(KeyOrder, LAMBDA k : k \in DOMAIN items)
  IN  [i \in 1..Len(ks) |-> <<ks[i], items[ks[i]]>>]

\* json.Decode into a map[string]string.
Unmarshal(body) ==
  [k \in {body[i][1] : i \in DOMAIN body} |->
     body[CHOOSE i \in DOMAIN body : body[i][1] = k][2]]

\* ------------------------------------------------------------------ errors

nil == "nil"
errMismatchedETag == "mismatched ETags"
errGetObject == "get object"
errPutObject == "put object"
errMaxCapacity == "at max capacity"
errEmptyValue == "empty value"

\* The ETag of an object that does not exist: getDB returns "".
NoETag == 0

VARIABLES
  numServers, \* how many of the nodes the cluster runs
  maxItems, \* Server.maxItems, the same on every node
  obj,      \* the database object in the bucket: [exists, body, etag]
  mu,       \* mu[n]: storage.mu of node n is locked
  pc,       \* pc[c]: where client c's handler is
  req,      \* req[c]: the command client c sent last
  loc,      \* loc[c]: MutateDB's locals in c's handler: itemsCopy, etag, n
  resp,     \* resp[c]: the reply to c's last command
  stat,     \* stat[c]: callback invocations and ETag mismatches of c's call, and
            \* the ETag of the version it read last
  hist,     \* the workload's recorded history (call and return events)
  rec,      \* whether a workload is recording the history
  nOps,     \* commands issued so far
  nFaults,  \* object-store failures injected so far
  lastAck,  \* the acknowledged SET or DEL that made the current version, if any
  cleared,  \* keys emptied by an acknowledged FLUSHALL and not SET since
  test,     \* TestConditionalWrite: its last setDB call and the getDB after it
  cli,      \* one client.Client and its redigo connection, with its last call
  wl,       \* the workload command: its iterations and what it reported
  srv,      \* srv[n]: node n's Server, from its construction to its shutdown
  bucket,   \* whether the bucket exists in the object store
  wire,     \* wire[c]: client c's connection at the server, and the last command handle answered itself
  mdl,      \* the reference model: a state, one operation and the step over it
  twin,     \* a never-created and a flushed database under the same commands
  run,      \* one iteration of the workload command, from its flush to the end of its workload
  gen,      \* the workload generator: its random numbers and the workloads it returned
  chk,      \* CheckWorkloads: the workloads and verdicts it is given and what it returned
  sets      \* the string sets in memory and one call of a method on them

vars == <<numServers, maxItems, obj, mu, pc, req, loc, resp, stat, hist, rec, nOps, nFaults, lastAck, cleared, test, cli, wl, srv, bucket, wire, mdl, twin, run, gen, chk, sets>>

\* The cluster, its object store and its clients' commands.
cluster == <<numServers, maxItems, obj, mu, pc, req, loc, resp, stat, hist, rec, nOps, nFaults, lastAck, cleared, test>>

\* The state outside the cluster and its object store.
aux == <<cli, wl, srv, bucket, wire, mdl, twin, run, gen, chk, sets>>

\* servertest.NewCluster / exerciseAndVerify: client i dials address i mod n.
NodeOf(c) == c % numServers

\* ------------------------------------------------------------ object store

\* The object store gives every successful write a new ETag.
NewETag(o) == o.etag + 1

\* PutObject's precondition: If-None-Match: * holds when the object does not
\* exist, If-Match: e when the object exists with ETag e; a header that is not
\* set (IfNoneMatch "", IfMatch NoETag) asks for nothing.
PreconditionHolds(o, input) ==
  /\ input.IfNoneMatch = "*" => ~o.exists
  /\ input.IfMatch # NoETag => o.exists /\ o.etag = input.IfMatch

PutObject(o, input) ==
  IF PreconditionHolds(o, input)
  THEN [err |-> nil, obj |-> [exists |-> TRUE, body |-> input.body, etag |-> NewETag(o)]]
  ELSE [err |-> "PreconditionFailed", obj |-> o]

\* ------------------------------------------------------------ storage.go

\* storage.getDB without an object-store failure.
\* A getDB that reports a missing object like any other failed read.
getDBMissingIsError(o) ==
  IF ~o.exists
  THEN [items |-> EmptyDB, etag |-> NoETag, err |-> errGetObject]
  ELSE [items |-> Unmarshal(o.body), etag |-> o.etag, err |-> nil]

getDB(o) ==
  IF ~o.exists
  THEN [items |-> EmptyDB, etag |-> NoETag, err |-> nil]
  ELSE [items |-> Unmarshal(o.body), etag |-> o.etag, err |-> nil]

\* setDB without the conditional headers: a blind write.
PutInputUnconditional(items, etag) ==
  [body |-> Marshal(items), IfNoneMatch |-> "", IfMatch |-> NoETag]

\* setDB that always sends If-Match, also for the empty ETag.
PutInputIfMatchOnly(items, etag) ==
  [body |-> Marshal(items), IfNoneMatch |-> "", IfMatch |-> etag]

\* The PutObjectInput setDB builds.
PutInput(items, etag) ==
  [body |-> Marshal(items),
   IfNoneMatch |-> IF etag = NoETag THEN "*" ELSE "",
   IfMatch |-> IF etag = NoETag THEN NoETag ELSE etag]

\* A setDB that sends no PUT when the object already holds what it is to write.
setDBSkipsUnchanged(o, items, etag) ==
  IF o.exists /\ o.body = Marshal(items) /\ o.etag = etag
  THEN [err |-> nil, obj |-> o]
  ELSE LET r == PutObject(o, PutInput(items, etag))
       IN  [err |-> IF r.err = "PreconditionFailed" THEN errMismatchedETag ELSE r.err,
            obj |-> r.obj]

\* storage.setDB without an object-store failure other than 412.
setDB(o, items, etag) ==
  LET r == PutObject(o, PutInput(items, etag))
  IN  [err |-> IF r.err = "PreconditionFailed" THEN errMismatchedETag ELSE r.err,
       obj |-> r.obj]

\* MutateDB that starts another attempt after any setDB error.
IsRetriedAnyError(err) == err # nil

\* MutateDB that returns every setDB error to its caller.
IsRetriedNever(err) == FALSE

\* MutateDB's decision after setDB: only an ETag mismatch starts another attempt.
IsRetried(err) == err = errMismatchedETag

\* ------------------------------------------------------------ server callbacks

\* A set callback that never replaces the value of a key that is present.
setCallbackKeepsOld(items, k, v) ==
  IF len(items) >= maxItems
  THEN [items |-> items, n |-> 0, err |-> errMaxCapacity]
  ELSE [items |-> IF k \in DOMAIN items THEN items ELSE MapSet(items, k, v),
        n |-> 0, err |-> nil]

\* A set callback that counts only new keys against the capacity.
setCallbackAllowsUpdate(items, k, v) ==
  IF len(items) >= maxItems /\ k \notin DOMAIN items
  THEN [items |-> items, n |-> 0, err |-> errMaxCapacity]
  ELSE [items |-> MapSet(items, k, v), n |-> 0, err |-> nil]

\* A set callback whose capacity check is off by one.
setCallbackOffByOne(items, k, v) ==
  IF len(items) > maxItems
  THEN [items |-> items, n |-> 0, err |-> errMaxCapacity]
  ELSE [items |-> MapSet(items, k, v), n |-> 0, err |-> nil]

\* A set callback that passes the capacity check and forgets the assignment.
setCallbackNoInsert(items, k, v) ==
  IF len(items) >= maxItems
  THEN [items |-> items, n |-> 0, err |-> errMaxCapacity]
  ELSE [items |-> items, n |-> 0, err |-> nil]

\* Server.set's callback.
setCallback(items, k, v) ==
  IF len(items) >= maxItems
  THEN [items |-> items, n |-> 0, err |-> errMaxCapacity]
  ELSE [items |-> MapSet(items, k, v), n |-> 0, err |-> nil]

\* Server.del's callback.
delCallback(items, k) ==
  [items |-> MapDelete(items, k), n |-> IF k \in DOMAIN items THEN 1 ELSE 0, err |-> nil]

\* A flushAll callback that leaves the map as it is.
flushAllCallbackNoClear(items) == [items |-> items, n |-> 0, err |-> nil]

\* Server.flushAll's callback.
flushAllCallback(items) == [items |-> EmptyDB, n |-> 0, err |-> nil]

Callback(r, items) ==
  CASE r.op = "set" -> setCallback(items, r.key, r.val)
    [] r.op = "del" -> delCallback(items, r.key)
    [] r.op = "flushall" -> flushAllCallback(items)

\* ------------------------------------------------------------------ replies

NoReply == [t |-> "none", s |-> "", n |-> 0]
ReplyNull == [t |-> "null", s |-> "", n |-> 0]
ReplyBulk(v) == [t |-> "bulk", s |-> v, n |-> 0]
ReplyString(v) == [t |-> "string", s |-> v, n |-> 0]
ReplyInt(i) == [t |-> "int", s |-> "", n |-> i]
\* writeErr: "ERR <err>".
ReplyErr(e) == [t |-> "error", s |-> e, n |-> 0]

\* What Server.get writes for the items GetDB returned.
getReply(items, k) ==
  IF k \notin DOMAIN items THEN ReplyNull
  ELSE IF items[k] = "" THEN ReplyErr("database contains empty value")
  ELSE ReplyBulk(items[k])

\* What set, del and flushAll write when MutateDB returned (n, nil).
mutateReply(r, n) == IF r.op = "del" THEN ReplyInt(n) ELSE ReplyString("OK")

\* ------------------------------------------------------------ typed client

ErrNotFound == "key not found"

\* Client.Get: a null reply is ErrNotFound, a bulk string is the value.
ClientGet(reply) ==
  CASE reply.t = "error" -> [Value |-> "", Err |-> reply.s]
    [] reply.t = "null" -> [Value |-> "", Err |-> ErrNotFound]
    [] reply.t = "bulk" -> [Value |-> reply.s, Err |-> nil]
    [] OTHER -> [Value |-> "", Err |-> "unexpected get response type"]

\* Client.Set: +OK is nil, anything else an error.
ClientSet(reply) ==
  CASE reply.t = "error" -> [Value |-> "", Err |-> reply.s]
    [] reply.t = "string" /\ reply.s = "OK" -> [Value |-> "", Err |-> nil]
    [] reply.t = "string" -> [Value |-> "", Err |-> "unexpected set response"]
    [] OTHER -> [Value |-> "", Err |-> "unexpected set response type"]

ClientDelAnyCount(reply) ==
  CASE reply.t = "error" -> [Value |-> "", Err |-> reply.s]
    [] reply.t = "int" /\ reply.n = 0 -> [Value |-> "", Err |-> ErrNotFound]
    [] reply.t = "int" -> [Value |-> "", Err |-> nil]
    [] OTHER -> [Value |-> "", Err |-> "unexpected del response type"]

\* Client.Del: :0 is ErrNotFound, :1 is nil, more than 1 is an error.
ClientDel(reply) ==
  CASE reply.t = "error" -> [Value |-> "", Err |-> reply.s]
    [] reply.t = "int" /\ reply.n > 1 -> [Value |-> "", Err |-> "server returned more than 1 for single-key DEL"]
    [] reply.t = "int" /\ reply.n = 0 -> [Value |-> "", Err |-> ErrNotFound]
    [] reply.t = "int" -> [Value |-> "", Err |-> nil]
    [] OTHER -> [Value |-> "", Err |-> "unexpected del response type"]

\* RunWorkload: the rets recorded for one operation.
ClientOut(r, reply) ==
  CASE r.op = "get" -> ClientGet(reply)
    [] r.op = "set" -> ClientSet(reply)
    [] r.op = "del" -> ClientDel(reply)
    [] OTHER -> [Value |-> "", Err |-> nil]

\* ------------------------------------------------------------ handler steps

NoReq == [op |-> "none", key |-> "", val |-> ""]
NoLoc == [arg |-> EmptyDB, items |-> EmptyDB, etag |-> NoETag, n |-> 0]
NoStat == [callbacks |-> 0, mismatches |-> 0, read |-> NoETag]
NoAck == [op |-> "none", key |-> "", val |-> "", n |-> 0, client |-> 0]
NoObj == [exists |-> FALSE, body |-> <<>>, etag |-> NoETag]
NoCall == [op |-> "none", items |-> EmptyDB, etag |-> NoETag, err |-> nil, pre |-> NoObj]
NoTest == [set |-> NoCall, get |-> NoCall, mismatched |-> FALSE]

Workload == {"get", "set", "del"}

CallEvent(c, r) ==
  [type |-> "call", client |-> c, op |-> r.op, key |-> r.key, val |-> r.val, err |-> nil]
RetEvent(c, r, reply) ==
  LET out == ClientOut(r, reply)
  IN  [type |-> "ret", client |-> c, op |-> r.op, key |-> r.key, val |-> out.Value, err |-> out.Err]

\* RunWorkload stamps Call before the command is sent and Return after the reply.
Recorded(r, ev) == IF rec /\ r.op \in Workload THEN Append(hist, ev) ELSE hist

\* A client sends a command whose handler goes to storage.
Send(c, r) ==
  /\ pc[c] = "idle"
  /\ nOps < MaxOps
  /\ nOps' = nOps + 1
  /\ req' = [req EXCEPT ![c] = r]
  /\ resp' = [resp EXCEPT ![c] = NoReply]
  /\ stat' = [stat EXCEPT ![c] = NoStat]
  /\ pc' = [pc EXCEPT ![c] = "lock"]
  /\ hist' = Recorded(r, CallEvent(c, r))
  /\ UNCHANGED <<aux, numServers, maxItems, obj, mu, loc, rec, nFaults, lastAck, cleared, test>>

CallGet(c) == \E k \in Keys : Send(c, [op |-> "get", key |-> k, val |-> ""])
CallSet(c) == \E k \in Keys, v \in Values : Send(c, [op |-> "set", key |-> k, val |-> v])
CallDel(c) == \E k \in Keys : Send(c, [op |-> "del", key |-> k, val |-> ""])
CallFlushAll(c) == Send(c, [op |-> "flushall", key |-> "", val |-> ""])

\* A Server.set without the empty-value check: the command goes to storage.
CallSetEmptyStored(c) ==
  \E k \in Keys : Send(c, [op |-> "set", key |-> k, val |-> ""])

\* Server.set with an empty value: the reply is written before any storage call.
CallSetEmpty(c) ==
  \E k \in Keys :
    LET r == [op |-> "set", key |-> k, val |-> ""]
        reply == ReplyErr(errEmptyValue)
    IN  /\ pc[c] = "idle"
        /\ nOps < MaxOps
        /\ nOps' = nOps + 1
        /\ req' = [req EXCEPT ![c] = r]
        /\ resp' = [resp EXCEPT ![c] = reply]
        /\ stat' = [stat EXCEPT ![c] = NoStat]
        /\ hist' = IF rec THEN hist \o <<CallEvent(c, r), RetEvent(c, r, reply)>> ELSE hist
        /\ UNCHANGED <<aux, numServers, maxItems, obj, mu, pc, loc, rec, nFaults, lastAck, cleared, test>>

\* A Lock that does not wait for the holder of the mutex.
LockNoWait(c) ==
  /\ pc[c] = "lock"
  /\ mu' = [mu EXCEPT ![NodeOf(c)] = TRUE]
  /\ pc' = [pc EXCEPT ![c] = "read"]
  /\ UNCHANGED <<aux, numServers, maxItems, obj, req, loc, resp, stat, hist, rec, nOps, nFaults, lastAck, cleared, test>>

\* GetDB and MutateDB: s.mu.Lock().
Lock(c) ==
  /\ pc[c] = "lock"
  /\ ~mu[NodeOf(c)]
  /\ mu' = [mu EXCEPT ![NodeOf(c)] = TRUE]
  /\ pc' = [pc EXCEPT ![c] = "read"]
  /\ UNCHANGED <<aux, numServers, maxItems, obj, req, loc, resp, stat, hist, rec, nOps, nFaults, lastAck, cleared, test>>

\* A return on which the deferred Unlock runs only after a success.
ReturnUnlocksOnSuccess(c, reply) ==
  /\ mu' = [mu EXCEPT ![NodeOf(c)] = (reply.t = "error")]
  /\ pc' = [pc EXCEPT ![c] = "idle"]
  /\ loc' = [loc EXCEPT ![c] = NoLoc]
  /\ resp' = [resp EXCEPT ![c] = reply]
  /\ hist' = Recorded(req[c], RetEvent(c, req[c], reply))

\* The handler returns: the deferred Unlock runs and the reply goes to the client.
Return(c, reply) ==
  /\ mu' = [mu EXCEPT ![NodeOf(c)] = FALSE]
  /\ pc' = [pc EXCEPT ![c] = "idle"]
  /\ loc' = [loc EXCEPT ![c] = NoLoc]
  /\ resp' = [resp EXCEPT ![c] = reply]
  /\ hist' = Recorded(req[c], RetEvent(c, req[c], reply))

\* Server.get: GetDB's single read, then the reply.
GetRead(c) ==
  /\ pc[c] = "read"
  /\ req[c].op = "get"
  /\ LET r == getDB(obj)
     IN  Return(c, IF r.err # nil THEN ReplyErr(r.err) ELSE getReply(r.items, req[c].key))
  /\ stat' = [stat EXCEPT ![c].read = obj.etag]
  /\ UNCHANGED <<aux, numServers, maxItems, obj, req, rec, nOps, nFaults, lastAck, cleared, test>>

\* MutateDB whose copy is made once, before the loop: a retry hands the
\* callback the copy the previous attempt left.
attemptReusesCopy(c, read) ==
  LET itemsCopy == IF stat[c].mismatches > 0 THEN loc[c].items ELSE MapCopy(read.items)
      cb == Callback(req[c], itemsCopy)
  IN  [arg |-> itemsCopy, items |-> cb.items, etag |-> read.etag, n |-> cb.n, err |-> cb.err]

\* MutateDB that drops the callback's error and goes on to the PUT.
attemptIgnoresError(c, read) ==
  LET itemsCopy == MapCopy(read.items)
      cb == Callback(req[c], itemsCopy)
  IN  [arg |-> itemsCopy, items |-> cb.items, etag |-> read.etag, n |-> cb.n, err |-> nil]

\* MutateDB that keeps the count of its first attempt.
attemptKeepsCount(c, read) ==
  LET itemsCopy == MapCopy(read.items)
      cb == Callback(req[c], itemsCopy)
  IN  [arg |-> itemsCopy, items |-> cb.items, etag |-> read.etag,
       n |-> IF stat[c].mismatches > 0 THEN loc[c].n ELSE cb.n, err |-> cb.err]

\* MutateDB between getDB and setDB: the callback runs on a copy of what this
\* attempt read.  arg is the map as the callback received it, items the copy
\* as the callback left it.
attempt(c, read) ==
  LET itemsCopy == MapCopy(read.items)
      cb == Callback(req[c], itemsCopy)
  IN  [arg |-> itemsCopy, items |-> cb.items, etag |-> read.etag, n |-> cb.n, err |-> cb.err]

\* One attempt of MutateDB up to the PUT: read, copy, callback.
MutRead(c) ==
  /\ pc[c] = "read"
  /\ req[c].op \in {"set", "del", "flushall"}
  /\ LET r == getDB(obj)
         a == IF r.err # nil THEN [err |-> r.err] ELSE attempt(c, r)
     IN  /\ stat' = [stat EXCEPT ![c].callbacks = IF r.err # nil THEN @ ELSE @ + 1,
                                 ![c].read = obj.etag]
         /\ IF a.err # nil
            THEN Return(c, ReplyErr(a.err))
            ELSE /\ loc' = [loc EXCEPT ![c] = [arg |-> a.arg, items |-> a.items, etag |-> a.etag, n |-> a.n]]
                 /\ pc' = [pc EXCEPT ![c] = "put"]
                 /\ UNCHANGED <<mu, resp, hist>>
  /\ UNCHANGED <<aux, numServers, maxItems, obj, req, rec, nOps, nFaults, lastAck, cleared, test>>

\* What MutateDB writes back: the copy the callback mutated, under the ETag read.
PutOf(c) == setDB(obj, loc[c].items, loc[c].etag)

\* The bookkeeping of a committed write: who may rely on it.
Acked(c) ==
  IF req[c].op \in {"set", "del"}
  THEN [op |-> req[c].op, key |-> req[c].key, val |-> req[c].val, n |-> loc[c].n, client |-> c]
  ELSE NoAck
ClearedAfter(c, acked) ==
  CASE req[c].op = "flushall" /\ acked -> Keys
    [] req[c].op = "set" -> cleared \ {req[c].key}
    [] OTHER -> cleared

\* The conditional PUT of an attempt and MutateDB's reaction to its result.
MutPut(c) ==
  /\ pc[c] = "put"
  /\ LET w == PutOf(c)
     IN  IF w.err = nil
         THEN /\ obj' = w.obj
              /\ Return(c, mutateReply(req[c], loc[c].n))
              /\ lastAck' = Acked(c)
              /\ cleared' = ClearedAfter(c, TRUE)
              /\ UNCHANGED stat
         ELSE IF IsRetried(w.err)
         THEN /\ pc' = [pc EXCEPT ![c] = "read"]
              /\ stat' = [stat EXCEPT ![c].mismatches = @ + 1]
              /\ UNCHANGED <<obj, mu, loc, resp, hist, lastAck, cleared>>
         ELSE /\ Return(c, ReplyErr(w.err))
              /\ UNCHANGED <<obj, stat, lastAck, cleared>>
  /\ UNCHANGED <<aux, numServers, maxItems, req, rec, nOps, nFaults, test>>

\* ------------------------------------------------------------ object-store failures

\* GetObject fails with an error other than NoSuchKey (timeout, 5xx).
ReadFail(c) ==
  /\ pc[c] = "read"
  /\ nFaults < MaxFaults
  /\ nFaults' = nFaults + 1
  /\ Return(c, ReplyErr(errGetObject))
  /\ UNCHANGED <<aux, numServers, maxItems, obj, req, stat, rec, nOps, lastAck, cleared, test>>

\* PutObject fails with an error other than PreconditionFailed.  The store may
\* have applied the write before the failure reached the server (a timeout).
PutFail(c) ==
  /\ pc[c] = "put"
  /\ nFaults < MaxFaults
  /\ nFaults' = nFaults + 1
  /\ \E applied \in BOOLEAN :
       LET w == PutOf(c)
       IN  IF applied /\ w.err = nil
           THEN /\ obj' = w.obj
                /\ lastAck' = NoAck
                /\ cleared' = ClearedAfter(c, FALSE)
           ELSE UNCHANGED <<obj, lastAck, cleared>>
  /\ IF IsRetried(errPutObject)
     THEN /\ pc' = [pc EXCEPT ![c] = "read"]
          /\ UNCHANGED <<mu, loc, resp, hist>>
     ELSE Return(c, ReplyErr(errPutObject))
  /\ UNCHANGED <<aux, numServers, maxItems, req, stat, rec, nOps, test>>

\* ------------------------------------------------------------ storage test

DBs == UNION {[S -> Values] : S \in SUBSET Keys}
\* ETags a caller may present: none, every ETag the store has given out, and
\* one it has not ("not-the-right-ETag").
ETags == 0..(MaxOps + 1)

\* TestConditionalWrite calls s.setDB directly, with any mapping and any ETag.
TestSetDB ==
  \E items \in DBs, etag \in ETags :
    LET w == setDB(obj, items, etag)
    IN  /\ nOps < MaxOps
        /\ nOps' = nOps + 1
        /\ obj' = w.obj
        /\ test' = [set |-> [op |-> "setDB", items |-> items, etag |-> etag, err |-> w.err, pre |-> obj],
                    get |-> NoCall,
                    mismatched |-> test.mismatched \/ w.err = errMismatchedETag]
        /\ UNCHANGED <<aux, numServers, maxItems, mu, pc, req, loc, resp, stat, hist, rec, nFaults, lastAck, cleared>>

\* TestConditionalWrite calls s.getDB directly.
TestGetDB ==
  LET r == getDB(obj)
  IN  /\ test.get.op = "none"
      /\ test' = [test EXCEPT !.get = [op |-> "getDB", items |-> r.items, etag |-> r.etag, err |-> r.err, pre |-> obj]]
      /\ UNCHANGED <<aux, numServers, maxItems, obj, mu, pc, req, loc, resp, stat, hist, rec, nOps, nFaults, lastAck, cleared>>

\* ------------------------------------------------------------ reference model

\* proptest's set: newSet and With.
newSet == {}
With(S, item) == S \cup {item}
Contains(S, item) == item \in S

StepGetNotFoundOnlyEmpty(S, in, out) ==
  CASE in.op = "get" ->
         IF out.Err # nil
         THEN IF out.Err = ErrNotFound
              THEN [ok |-> Cardinality(S) = 0, state |-> S]
              ELSE [ok |-> TRUE, state |-> S]
         ELSE [ok |-> Contains(S, out.Value), state |-> S]
    [] in.op = "set" ->
         IF out.Err # nil
         THEN [ok |-> TRUE, state |-> With(S, in.val)]
         ELSE [ok |-> TRUE, state |-> With(newSet, in.val)]
    [] in.op = "del" ->
         IF out.Err # nil
         THEN [ok |-> TRUE, state |-> With(S, "")]
         ELSE [ok |-> TRUE, state |-> newSet]
    [] OTHER -> [ok |-> TRUE, state |-> S]

StepFailedDelKeeps(S, in, out) ==
  CASE in.op = "get" ->
         IF out.Err # nil
         THEN IF out.Err = ErrNotFound
              THEN [ok |-> Contains(S, "") \/ Cardinality(S) = 0, state |-> S]
              ELSE [ok |-> TRUE, state |-> S]
         ELSE [ok |-> Contains(S, out.Value), state |-> S]
    [] in.op = "set" ->
         IF out.Err # nil
         THEN [ok |-> TRUE, state |-> With(S, in.val)]
         ELSE [ok |-> TRUE, state |-> With(newSet, in.val)]
    [] in.op = "del" ->
         IF out.Err # nil
         THEN [ok |-> TRUE, state |-> S]
         ELSE [ok |-> TRUE, state |-> newSet]
    [] OTHER -> [ok |-> TRUE, state |-> S]

\* newModel().Step: (legal, next state) for one operation of one key.
Step(S, in, out) ==
  CASE in.op = "get" ->
         IF out.Err # nil
         THEN IF out.Err = ErrNotFound
              THEN [ok |-> Contains(S, "") \/ Cardinality(S) = 0, state |-> S]
              ELSE [ok |-> TRUE, state |-> S]
         ELSE [ok |-> Contains(S, out.Value), state |-> S]
    [] in.op = "set" ->
         IF out.Err # nil
         THEN [ok |-> TRUE, state |-> With(S, in.val)]
         ELSE [ok |-> TRUE, state |-> With(newSet, in.val)]
    [] in.op = "del" ->
         IF out.Err # nil
         THEN [ok |-> TRUE, state |-> With(S, "")]
         ELSE [ok |-> TRUE, state |-> newSet]
    [] OTHER -> [ok |-> TRUE, state |-> S]

\* The operations of the history: a call event and the same client's next return.
IsRetOf(i, j) ==
  /\ j > i
  /\ hist[j].type = "ret"
  /\ hist[j].client = hist[i].client
  /\ \A m \in (i + 1)..(j - 1) : ~(hist[m].type = "ret" /\ hist[m].client = hist[i].client)
Completed(i) == hist[i].type = "call" /\ \E j \in DOMAIN hist : IsRetOf(i, j)
RetOf(i) == CHOOSE j \in DOMAIN hist : IsRetOf(i, j)
In(i) == [op |-> hist[i].op, key |-> hist[i].key, val |-> hist[i].val]
Out(i) == [Value |-> hist[RetOf(i)].val, Err |-> hist[RetOf(i)].err]

\* CheckWorkloads' partition of the history by input key.
Partition(k) == {i \in DOMAIN hist : Completed(i) /\ hist[i].key = k}

\* Operation i returned before operation j was called.
Precedes(i, j) == RetOf(i) < j

\* porcupine.CheckOperations: some order of the operations, consistent with
\* real-time precedence, in which every model step is legal.
RECURSIVE Linearizable(_, _)
Linearizable(S, ops) ==
  \/ ops = {}
  \/ \E i \in ops :
       /\ \A j \in ops \ {i} : ~Precedes(j, i)
       /\ LET st == Step(S, In(i), Out(i))
          IN  st.ok /\ Linearizable(st.state, ops \ {i})

\* CheckWorkloads reports no violation: every partition is linearizable from
\* the model's initial state.  It runs when every workload has finished.
CheckWorkloadsOk ==
  (\A c \in Clients : pc[c] = "idle") => \A k \in Keys : Linearizable(newSet, Partition(k))

\* ------------------------------------------------------------ client connection

\* The bound of the client's calls.
MaxCalls == 3

\* The methods of client.Client that send a command.
ClientOps == {"ping", "get", "set", "del", "flushall"}

\* What a server may put on the wire in answer to one command.
Replies ==
  {ReplyNull, ReplyBulk("A"), ReplyBulk("B"), ReplyString("OK"), ReplyString("PONG"),
   ReplyInt(0), ReplyInt(1), ReplyInt(2), ReplyErr(errMaxCapacity)}

\* Transport-level errors of the connection (read or write on the socket).
Causes == {"EOF", "connection reset by peer"}

\* What the redigo connection returns from Do once it has failed: it closed
\* its socket when it failed, so the write fails and nothing is sent.
errClosed == "use of closed network connection"

\* fmt.Errorf("conn unusable: %w", err).
ConnUnusable(cause) == "conn unusable: " \o cause

\* Client.Ping: +PONG is nil, anything else an error.
ClientPing(reply) ==
  CASE reply.t = "error" -> [Value |-> "", Err |-> reply.s]
    [] reply.t = "string" /\ reply.s = "PONG" -> [Value |-> "", Err |-> nil]
    [] reply.t = "string" -> [Value |-> "", Err |-> "unexpected ping response"]
    [] OTHER -> [Value |-> "", Err |-> "unexpected ping response type"]

\* Client.FlushAll: +OK is nil, anything else an error.
ClientFlushAll(reply) ==
  CASE reply.t = "error" -> [Value |-> "", Err |-> reply.s]
    [] reply.t = "string" /\ reply.s = "OK" -> [Value |-> "", Err |-> nil]
    [] reply.t = "string" -> [Value |-> "", Err |-> "unexpected flushall response"]
    [] OTHER -> [Value |-> "", Err |-> "unexpected flushall response type"]

\* What a method makes of the reply that c.conn.Do returned, up to its check
\* of c.conn.Err().  An error reply comes back from Do as its error.
Decode(op, reply) ==
  CASE op = "ping" -> ClientPing(reply)
    [] op = "get" -> ClientGet(reply)
    [] op = "set" -> ClientSet(reply)
    [] op = "del" -> ClientDel(reply)
    [] op = "flushall" -> ClientFlushAll(reply)

\* connErr: Client.connErr.  fatal: the error the redigo connection holds
\* (c.conn.Err()).  op, reply, ret, sent: the last call, the reply Do
\* returned in it, what the call returned and whether it wrote its command
\* to the socket.  n: calls made.
\* errs: how many calls so far got an error reply.
NoCli ==
  [connErr |-> nil, fatal |-> nil, op |-> "none", reply |-> NoReply,
   ret |-> [Value |-> "", Err |-> nil], sent |-> FALSE, n |-> 0, errs |-> 0]

Returned(op, reply, ret, sent) ==
  [cli EXCEPT !.op = op, !.reply = reply, !.ret = ret, !.sent = sent, !.n = @ + 1,
              !.errs = IF reply.t = "error" THEN @ + 1 ELSE @]

\* A method that returns at its first statement: connErr is set.
CallUnusable(op) ==
  /\ cli.connErr # nil
  /\ cli' = Returned(op, NoReply, [Value |-> "", Err |-> ConnUnusable(cli.connErr)], FALSE)

\* c.conn.Do on a connection that has failed before: Do returns an error
\* and the method returns it as it is.
CallOnFailedConn(op) ==
  /\ cli.connErr = nil /\ cli.fatal # nil
  /\ cli' = Returned(op, NoReply, [Value |-> "", Err |-> errClosed], FALSE)

\* c.conn.Do fails with a transport error: the connection records it and
\* the method returns Do's error as it is.
CallDoFails(op) ==
  /\ cli.connErr = nil /\ cli.fatal = nil
  /\ \E cause \in Causes :
       cli' = [Returned(op, NoReply, [Value |-> "", Err |-> cause], TRUE)
                 EXCEPT !.fatal = cause]

\* A client that gives the connection up on every reply it returns an error for.
CallRepliedLatchesOnError(op) ==
  /\ cli.connErr = nil /\ cli.fatal = nil
  /\ \E reply \in Replies, err \in {nil} \cup Causes :
       LET d == Decode(op, reply)
       IN  IF d.Err = nil /\ err # nil
           THEN cli' = [Returned(op, reply, [Value |-> "", Err |-> ConnUnusable(err)], TRUE)
                          EXCEPT !.fatal = err, !.connErr = err]
           ELSE IF d.Err # nil
           THEN cli' = [Returned(op, reply, d, TRUE) EXCEPT !.fatal = err, !.connErr = d.Err]
           ELSE cli' = [Returned(op, reply, d, TRUE) EXCEPT !.fatal = err]

\* c.conn.Do returns a reply.  A method that has decoded it without error
\* then asks c.conn.Err(), and if that is set it latches connErr, closes the
\* connection and returns "conn unusable"; every other path returns before.
CallReplied(op) ==
  /\ cli.connErr = nil /\ cli.fatal = nil
  /\ \E reply \in Replies, err \in {nil} \cup Causes :
       LET d == Decode(op, reply)
       IN  IF d.Err = nil /\ err # nil
           THEN cli' = [Returned(op, reply, [Value |-> "", Err |-> ConnUnusable(err)], TRUE)
                          EXCEPT !.fatal = err, !.connErr = err]
           ELSE cli' = [Returned(op, reply, d, TRUE) EXCEPT !.fatal = err]

\* Ping, Get, Set, Del, FlushAll.
ClientCall ==
  /\ cli.n < MaxCalls
  /\ \E op \in ClientOps :
       \/ CallUnusable(op)
       \/ CallOnFailedConn(op)
       \/ CallDoFails(op)
       \/ CallReplied(op)
  /\ UNCHANGED <<cluster, wl, srv, bucket, wire, mdl, twin, run, gen, chk, sets>>

\* ------------------------------------------------------------ workload command

\* The bound of the workload command's iterations.
MaxIterations == 4

\* porcupine.CheckOperationsVerbose's results.
Verdicts == {"Ok", "Unknown", "Illegal"}

\* What CheckWorkloads returns as its error: nil, an *Error, or the error of
\* porcupine.Visualize.  Visualization: whether the *Error holds a buffer.
NoError == [type |-> "nil", Key |-> "", TimedOut |-> FALSE, Visualization |-> FALSE]
Error(key, timedOut) ==
  [type |-> "Error", Key |-> key, TimedOut |-> timedOut, Visualization |-> ~timedOut]
errVisualize == [type |-> "other", Key |-> "", TimedOut |-> FALSE, Visualization |-> FALSE]

\* CheckWorkloads, given the checker's verdict on each key's partition: the
\* errors it may return.  It ranges over a Go map, so the first partition
\* that is not Ok may be any of those that are not Ok.
CheckWorkloads(verdict) ==
  IF \A k \in Keys : verdict[k] = "Ok" THEN {NoError}
  ELSE UNION {IF verdict[k] = "Ok" THEN {}
              ELSE IF verdict[k] = "Unknown" THEN {Error(k, TRUE)}
              ELSE {Error(k, FALSE), errVisualize} : k \in Keys}

\* iteration: exerciseAndVerify's runs so far.  err: what CheckWorkloads
\* returned last.  unreachable: calls of assert.Unreachable.  artifacts: keys
\* whose consistency-failure file was written.  verified: runs logged as
\* verified.  panicked: the process died of a nil dereference.
NoWl ==
  [iteration |-> 0, err |-> NoError, unreachable |-> 0, artifacts |-> {},
   verified |-> 0, panicked |-> FALSE]

\* One iteration of the workload command's loop: exerciseAndVerify from the
\* return of CheckWorkloads on.  With an *Error it writes
\* perr.Visualization.Bytes() to the artifact file, and Bytes on the nil
\* buffer of a timed-out Error panics.
exerciseAndVerify ==
  /\ ~wl.panicked
  /\ wl.iteration < MaxIterations
  /\ \E verdict \in [Keys -> Verdicts] :
       \E err \in CheckWorkloads(verdict) :
         wl' = IF err.type = "nil"
               THEN [wl EXCEPT !.iteration = @ + 1, !.err = err, !.verified = @ + 1]
               ELSE IF err.type = "Error" /\ ~err.Visualization
               THEN [wl EXCEPT !.err = err, !.panicked = TRUE]
               ELSE [wl EXCEPT !.iteration = @ + 1, !.err = err,
                               !.unreachable = @ + 1,
                               !.artifacts = IF err.type = "Error" THEN @ \cup {err.Key} ELSE @]
  /\ UNCHANGED <<cluster, cli, srv, bucket, wire, mdl, twin, run, gen, chk, sets>>

\* ------------------------------------------------------------ server lifecycle

\* The bounds of failed bucket creations and of Close calls, per node.
MaxBucketFaults == 2
MaxCloses == 2

\* New: time.Second, in seconds.
backoff == 1

\* What the object store answers to CreateBucket.
errCreateBucket == "create bucket"
CreateBucket ==
  {IF bucket THEN "BucketAlreadyOwnedByYou" ELSE nil, errCreateBucket}

EnsureBucketExistsStrict(answer) == answer

\* storage.EnsureBucketExists: nil when the bucket was created or is
\* already ours, CreateBucket's error otherwise.
EnsureBucketExists(answer) ==
  IF answer = "BucketAlreadyOwnedByYou" THEN nil ELSE answer

\* Closing a listener that is closed already.
errClosedListener == "use of closed network connection"

\* pc: "new" (New is about to call EnsureBucketExists), "backoff" (New sleeps),
\* "built" (New has returned), "starting" (ServeTCP has been called and has
\* not yet taken s.mu), "serving" (ServeTCP has set s.close and serves, the
\* listener is open), "stopped" (the listener is closed).  fails: failed
\* EnsureBucketExists calls.  slept: seconds New has slept.  close: s.close
\* is set.  closes: calls of Close.  ret: what the last Close returned.
\* at: where ServeTCP was when Close was last called.
NoSrv ==
  [n \in Nodes |->
     [pc |-> "new", fails |-> 0, slept |-> 0, close |-> FALSE, closes |-> 0, ret |-> nil,
      at |-> "none"]]

\* New's loop body: one EnsureBucketExists.  A call that failed may still
\* have created the bucket.
New(n) ==
  /\ srv[n].pc = "new"
  /\ srv[n].fails <= MaxBucketFaults
  /\ \E answer \in CreateBucket :
       LET err == EnsureBucketExists(answer)
       IN  /\ answer = errCreateBucket => srv[n].fails < MaxBucketFaults
           /\ IF err # nil
              THEN /\ srv' = [srv EXCEPT ![n].pc = "backoff", ![n].fails = @ + 1]
                   /\ bucket' \in {bucket, TRUE}
              ELSE /\ srv' = [srv EXCEPT ![n].pc = "built"]
                   /\ bucket' = TRUE
  /\ UNCHANGED <<cluster, cli, wl, wire, mdl, twin, run, gen, chk, sets>>

\* New: time.Sleep(backoff); continue.
Backoff(n) ==
  /\ srv[n].pc = "backoff"
  /\ srv' = [srv EXCEPT ![n].pc = "new", ![n].slept = @ + backoff]
  /\ UNCHANGED <<cluster, cli, wl, bucket, wire, mdl, twin, run, gen, chk, sets>>

\* Server.ServeTCP is called, in a goroutine of its own: it makes the redcon
\* server and comes to s.mu.Lock().
ServeTCP(n) ==
  /\ srv[n].pc = "built"
  /\ srv' = [srv EXCEPT ![n].pc = "starting"]
  /\ UNCHANGED <<cluster, cli, wl, bucket, wire, mdl, twin, run, gen, chk, sets>>

\* ServeTCP under s.mu sets s.close, and then serves on the listener.
Serve(n) ==
  /\ srv[n].pc = "starting"
  /\ srv' = [srv EXCEPT ![n].pc = "serving", ![n].close = TRUE]
  /\ UNCHANGED <<cluster, cli, wl, bucket, wire, mdl, twin, run, gen, chk, sets>>

\* A Close that shuts the listener whether or not s.close is set.
CloseStopsAlways(n) ==
  /\ srv[n].pc \in {"built", "starting", "serving", "stopped"}
  /\ srv[n].closes < MaxCloses
  /\ srv' = [srv EXCEPT
               ![n].closes = @ + 1,
               ![n].at = srv[n].pc,
               ![n].pc = IF @ \in {"starting", "serving"} THEN "stopped" ELSE @,
               ![n].ret = IF ~srv[n].close \/ srv[n].pc = "serving"
                          THEN nil ELSE errClosedListener]
  /\ UNCHANGED <<cluster, cli, wl, bucket, wire, mdl, twin, run, gen, chk, sets>>

\* Server.Close, under s.mu: nil while s.close is not set, s.close()
\* otherwise.  s.close is the redcon server's Close, which closes the
\* listener: that ends ServeTCP the first time and fails on a listener that
\* is closed.
Close(n) ==
  /\ srv[n].pc \in {"built", "starting", "serving", "stopped"}
  /\ srv[n].closes < MaxCloses
  /\ srv' = [srv EXCEPT
               ![n].closes = @ + 1,
               ![n].at = srv[n].pc,
               ![n].pc = IF @ = "serving" THEN "stopped" ELSE @,
               ![n].ret = IF ~srv[n].close \/ srv[n].pc = "serving"
                          THEN nil ELSE errClosedListener]
  /\ UNCHANGED <<cluster, cli, wl, bucket, wire, mdl, twin, run, gen, chk, sets>>

\* ------------------------------------------------------------ command dispatch

\* The bound of a command's arguments.
MaxArgs == 2

\* op.New of a command's first token: the six operations, or anything else.
CommandNames == {"get", "set", "del", "flushall", "ping", "quit", "other"}

\* The arity tests of Server.get, set, del and flushAll; ping and quit have none.
BadArity(name, nargs) ==
  \/ name = "get" /\ nargs # 1
  \/ name = "set" /\ nargs # 2
  \/ name = "del" /\ nargs # 1
  \/ name = "flushall" /\ nargs > 0

\* writeErrArity.
errArity(name) == "wrong number of arguments for '" \o name \o "' command"

\* open: the connection is open.  name, nargs: the last command that handle
\* answered without calling the storage.  n: how many it answered so.
NoWire == [c \in Clients |-> [open |-> TRUE, name |-> "none", nargs |-> 0, n |-> 0]]

\* Server.handle for the commands it answers without the storage: a command
\* refused for its arity, PING, QUIT and an unknown command.  (GET, SET, DEL
\* and FLUSHALL of the right arity are CallGet, CallSet, CallSetEmpty, CallDel
\* and CallFlushAll.)
handle(c) ==
  /\ pc[c] = "idle"
  /\ wire[c].open
  /\ nOps < MaxOps
  /\ \E name \in CommandNames, nargs \in 0..MaxArgs :
       /\ name \in {"get", "set", "del", "flushall"} => BadArity(name, nargs)
       /\ resp' = [resp EXCEPT ![c] =
                     CASE name = "ping" -> ReplyString("PONG")
                       [] name = "quit" -> ReplyString("OK")
                       [] name = "other" -> ReplyErr("unknown command")
                       [] OTHER -> ReplyErr(errArity(name))]
       /\ wire' = [wire EXCEPT ![c] = [open |-> name # "quit", name |-> name,
                                       nargs |-> nargs, n |-> @.n + 1]]
  /\ nOps' = nOps + 1
  /\ UNCHANGED <<numServers, maxItems, obj, mu, pc, req, loc, stat, hist, rec, nFaults, lastAck, cleared, test>>
  /\ UNCHANGED <<cli, wl, srv, bucket, mdl, twin, run, gen, chk, sets>>

\* ------------------------------------------------------------ model steps

\* The values a model state may hold: the workload's values and "", which
\* stands for the missing key.
ModelValues == Values \cup {""}

\* The inputs and outputs of one operation as the model sees them.
ModelArgs == {[op |-> o, key |-> "foo", val |-> v] : o \in {"get", "set", "del"}, v \in Values}
ModelRets ==
  {[Value |-> v, Err |-> e] : v \in ModelValues, e \in {nil, ErrNotFound, errGetObject}}

\* Step on the heap of *set objects: heap[a] is the content of the set at
\* address a.  A get returns its input set; With and newSet allocate a set
\* and leave every other set alone.
StepOn(heap, db, in, out) ==
  LET st == Step(heap[db], in, out)
  IN  IF in.op = "get"
      THEN [ok |-> st.ok, heap |-> heap, next |-> db]
      ELSE [ok |-> st.ok, heap |-> Append(heap, st.state), next |-> Len(heap) + 1]

\* A model state S at address db and one operation to step over; once the
\* step is done, whether it is legal and the address of its next state.
NoMdl ==
  [S |-> {}, heap |-> <<{}>>, db |-> 1, in |-> [op |-> "none", key |-> "", val |-> ""],
   out |-> [Value |-> "", Err |-> nil], done |-> TRUE, ok |-> TRUE, next |-> 1]

\* The checker calls Step with a state, an input and an output.
ModelStep ==
  /\ ~mdl.done
  /\ LET r == StepOn(mdl.heap, mdl.db, mdl.in, mdl.out)
     IN  mdl' = [mdl EXCEPT !.done = TRUE, !.ok = r.ok, !.heap = r.heap, !.next = r.next]
  /\ UNCHANGED <<cluster, cli, wl, srv, bucket, wire, twin, run, gen, chk, sets>>

\* ------------------------------------------------------------ two databases side by side

\* A handler's step from the mutex to the PUT, on object o: GetDB and the
\* reply for a GET; for the others one attempt of MutateDB up to setDB.
ReadStep(o, r) ==
  LET g == getDB(o)
  IN  IF g.err # nil
      THEN [done |-> TRUE, reply |-> ReplyErr(g.err), loc |-> NoLoc]
      ELSE IF r.op = "get"
      THEN [done |-> TRUE, reply |-> getReply(g.items, r.key), loc |-> NoLoc]
      ELSE LET cb == Callback(r, MapCopy(g.items))
           IN  IF cb.err # nil
               THEN [done |-> TRUE, reply |-> ReplyErr(cb.err), loc |-> NoLoc]
               ELSE [done |-> FALSE, reply |-> NoReply,
                     loc |-> [NoLoc EXCEPT !.items = cb.items, !.etag = g.etag, !.n = cb.n]]

\* The attempt's setDB on object o and MutateDB's reaction to its result.
PutStep(o, l, r) ==
  LET w == setDB(o, l.items, l.etag)
  IN  IF w.err = nil
      THEN [done |-> TRUE, obj |-> w.obj, reply |-> mutateReply(r, l.n)]
      ELSE IF IsRetried(w.err)
      THEN [done |-> FALSE, obj |-> o, reply |-> NoReply]
      ELSE [done |-> TRUE, obj |-> o, reply |-> ReplyErr(w.err)]

\* Two buckets that receive the same commands in the same order, each client
\* on a node of its own: a holds the object that was never created, b one
\* that a FLUSHALL has emptied.  la, lb, ra, rb: the handlers' locals and
\* replies on either side.  same: the handlers have gone the same way so far.
NoTwin ==
  [phase |-> "fresh", a |-> NoObj, b |-> NoObj,
   pc |-> [c \in Clients |-> "idle"], req |-> [c \in Clients |-> NoReq],
   la |-> [c \in Clients |-> NoLoc], lb |-> [c \in Clients |-> NoLoc],
   ra |-> [c \in Clients |-> NoReply], rb |-> [c \in Clients |-> NoReply],
   n |-> 0, same |-> TRUE]

FlushAllCmd == [op |-> "flushall", key |-> "", val |-> ""]

\* b's history: nothing or some database was written, then a FLUSHALL
\* replied OK.
TwinFlush ==
  /\ twin.phase = "fresh"
  /\ \E o \in {NoObj} \cup {setDB(NoObj, d, NoETag).obj : d \in DBs} :
       LET f == PutStep(o, ReadStep(o, FlushAllCmd).loc, FlushAllCmd)
       IN  /\ f.reply = ReplyString("OK")
           /\ twin' = [twin EXCEPT !.phase = "run", !.b = f.obj]
  /\ UNCHANGED <<cluster, cli, wl, srv, bucket, wire, mdl, run, gen, chk, sets>>

\* A client sends GET, SET or DEL, to both sides.
TwinSend(c) ==
  /\ twin.phase = "run" /\ twin.same
  /\ twin.pc[c] = "idle"
  /\ twin.n < MaxOps
  /\ \E op \in Workload, k \in Keys, v \in Values :
       twin' = [twin EXCEPT !.pc[c] = "read", !.n = @ + 1,
                            !.req[c] = [op |-> op, key |-> k, val |-> IF op = "set" THEN v ELSE ""],
                            !.ra[c] = NoReply, !.rb[c] = NoReply]
  /\ UNCHANGED <<cluster, cli, wl, srv, bucket, wire, mdl, run, gen, chk, sets>>

TwinRead(c) ==
  /\ twin.pc[c] = "read"
  /\ LET xa == ReadStep(twin.a, twin.req[c])
         xb == ReadStep(twin.b, twin.req[c])
     IN  twin' = [twin EXCEPT !.pc[c] = IF xa.done \/ xb.done THEN "idle" ELSE "put",
                              !.la[c] = xa.loc, !.lb[c] = xb.loc,
                              !.ra[c] = xa.reply, !.rb[c] = xb.reply,
                              !.same = (xa.done = xb.done)]
  /\ UNCHANGED <<cluster, cli, wl, srv, bucket, wire, mdl, run, gen, chk, sets>>

TwinPut(c) ==
  /\ twin.pc[c] = "put"
  /\ LET xa == PutStep(twin.a, twin.la[c], twin.req[c])
         xb == PutStep(twin.b, twin.lb[c], twin.req[c])
     IN  twin' = [twin EXCEPT !.pc[c] = IF xa.done /\ xb.done THEN "idle" ELSE "read",
                              !.a = xa.obj, !.b = xb.obj,
                              !.la[c] = IF xa.done THEN NoLoc ELSE @,
                              !.lb[c] = IF xb.done THEN NoLoc ELSE @,
                              !.ra[c] = xa.reply, !.rb[c] = xb.reply,
                              !.same = (xa.done = xb.done)]
  /\ UNCHANGED <<cluster, cli, wl, srv, bucket, wire, mdl, run, gen, chk, sets>>

\* ------------------------------------------------------------ workload iteration

\* The bound of the workloads that run concurrently and of each one's operations.
MaxWorkloads == 2
MaxWorkloadOps == 2

serialIterations == 16

Workers == 1..MaxWorkloads

\* A client as dial returns it: New and a Ping have succeeded on it.
NewClient(id) == [id |-> id, connErr |-> nil, fatal |-> nil]

\* Client.FlushAll on client fc: the client after the call and the error
\* returned.  While faults are injected a call may also fail in c.conn.Do
\* (the connection keeps the error), get an error reply, or find c.conn.Err()
\* set after its reply.
FlushAll(fc, healthy) ==
  IF fc.connErr # nil
  THEN {[fc |-> fc, err |-> ConnUnusable(fc.connErr)]}
  ELSE IF fc.fatal # nil
  THEN {[fc |-> fc, err |-> errClosed]}
  ELSE {[fc |-> fc, err |-> ClientFlushAll(ReplyString("OK")).Err]}
       \cup (IF healthy THEN {} ELSE
               {[fc |-> [fc EXCEPT !.fatal = cause], err |-> cause] : cause \in Causes}
               \cup {[fc |-> fc, err |-> ClientFlushAll(ReplyErr(errPutObject)).Err]}
               \cup {[fc |-> [fc EXCEPT !.fatal = cause, !.connErr = cause],
                      err |-> ConnUnusable(cause)] : cause \in Causes})

\* exerciseAndVerify up to wg.Wait().  pc: where the function is.  client:
\* the client of the flush loop.  dials: clients dialled so far.  flushed: a
\* FlushAll of this iteration returned nil.  slept: seconds slept since the
\* last failed FlushAll.  start: the start channel is closed.  w, ops: every
\* workload goroutine's position and the operations it has issued.  healthy:
\* no node and no object store fails any more.
NoRun ==
  [pc |-> "enter", iteration |-> 0, client |-> NewClient(0), dials |-> 0,
   flushed |-> FALSE, err |-> nil, slept |-> 0, start |-> FALSE,
   w |-> [i \in Workers |-> "none"], ops |-> [i \in Workers |-> 0],
   healthy |-> FALSE]

\* The faults stop for good.
Heal ==
  /\ ~run.healthy
  /\ run' = [run EXCEPT !.healthy = TRUE]
  /\ UNCHANGED <<cluster, cli, wl, srv, bucket, wire, mdl, twin, gen, chk, sets>>

\* exerciseAndVerify is called, in a serial or in a concurrent iteration,
\* and dial returns the client of the flush loop.
FlushDial ==
  /\ run.pc = "enter"
  /\ \E it \in {0, serialIterations} :
       run' = [run EXCEPT !.pc = "flush", !.iteration = it,
                          !.client = NewClient(run.dials + 1), !.dials = @ + 1]
  /\ UNCHANGED <<cluster, cli, wl, srv, bucket, wire, mdl, twin, gen, chk, sets>>

\* client.FlushAll() in the loop.
FlushTry ==
  /\ run.pc = "flush"
  /\ \E r \in FlushAll(run.client, run.healthy) :
       run' = [run EXCEPT !.client = r.fc, !.err = r.err, !.slept = 0,
                          !.flushed = (r.err = nil),
                          !.pc = IF r.err = nil THEN "spawn" ELSE "sleep"]
  /\ UNCHANGED <<cluster, cli, wl, srv, bucket, wire, mdl, twin, gen, chk, sets>>

\* time.Sleep(time.Second); continue.
FlushSleep ==
  /\ run.pc = "sleep"
  /\ run' = [run EXCEPT !.pc = "flush", !.slept = 1]
  /\ UNCHANGED <<cluster, cli, wl, srv, bucket, wire, mdl, twin, gen, chk, sets>>

\* GenWorkloads, the cut to one workload in a serial iteration, and the loop
\* that starts a goroutine for every workload.
Spawn ==
  /\ run.pc = "spawn"
  /\ run' = [run EXCEPT !.pc = "close",
                        !.w = [i \in Workers |->
                                 IF run.iteration < serialIterations /\ i > 1
                                 THEN "none" ELSE "dial"]]
  /\ UNCHANGED <<cluster, cli, wl, srv, bucket, wire, mdl, twin, gen, chk, sets>>

\* close(start).
CloseStart ==
  /\ run.pc = "close"
  /\ run' = [run EXCEPT !.pc = "wait", !.start = TRUE]
  /\ UNCHANGED <<cluster, cli, wl, srv, bucket, wire, mdl, twin, gen, chk, sets>>

\* A goroutine's dial returns; the goroutine goes on to <-start.
WorkerDial(i) ==
  /\ run.w[i] = "dial"
  /\ run' = [run EXCEPT !.w[i] = "ready", !.dials = @ + 1]
  /\ UNCHANGED <<cluster, cli, wl, srv, bucket, wire, mdl, twin, gen, chk, sets>>

\* <-start returns and RunWorkload begins.
WorkerStart(i) ==
  /\ run.w[i] = "ready"
  /\ run.start
  /\ run' = [run EXCEPT !.w[i] = "running"]
  /\ UNCHANGED <<cluster, cli, wl, srv, bucket, wire, mdl, twin, gen, chk, sets>>

\* RunWorkload issues its next operation, or returns after the last one.
WorkerOp(i) ==
  /\ run.w[i] = "running"
  /\ IF run.ops[i] < MaxWorkloadOps
     THEN run' = [run EXCEPT !.ops[i] = @ + 1]
     ELSE run' = [run EXCEPT !.w[i] = "done"]
  /\ UNCHANGED <<cluster, cli, wl, srv, bucket, wire, mdl, twin, gen, chk, sets>>

\* wg.Wait() returns.
WaitDone ==
  /\ run.pc = "wait"
  /\ \A i \in Workers : run.w[i] \in {"none", "done"}
  /\ run' = [run EXCEPT !.pc = "check"]
  /\ UNCHANGED <<cluster, cli, wl, srv, bucket, wire, mdl, twin, gen, chk, sets>>

\* ------------------------------------------------------------ workload generator

\* The bound of the seeds of the generator's numbers.
MaxSeed == 1

\* The operations GenWorkloads draws from: a bias towards GET.
ops == <<"get", "get", "get", "set", "set", "del">>

\* fmt.Sprintf("key%d", i).
KeyName(i) == "key" \o <<"0", "1", "2", "3", "4", "5", "6", "7", "8", "9">>[i + 1]

\* r.IntN(n) for the j-th number that r gives after the first three.
IntN(seed, j, n) == ((seed + 1) * (j + 3)) % n

\* A generator that picks the key anew for every operation.
GenWorkloadsKeyPerOp(r) ==
  LET keys == [i \in 0..(r.k + 2 - 1) |-> KeyName(i)]
      numClientsPerKey == r.c + 2
      opsPerClient == r.n + 128
      numKeys == r.k + 2
  IN  [clientId \in 0..(numKeys * numClientsPerKey - 1) |->
        [i \in 1..opsPerClient |->
          [ClientId |-> clientId,
           Op |-> ops[IntN(r.seed, 2 * (clientId * opsPerClient + i), Len(ops)) + 1],
           Key |-> keys[(clientId + i) % numKeys],
           Value |-> IF IntN(r.seed, 2 * (clientId * opsPerClient + i) + 1, 2) = 0
                     THEN "A" ELSE "B"]]]

\* GenWorkloads.  r: the numbers the generator gives: k, c and n are the
\* first three (r.IntN(3), r.IntN(3), r.IntN(128)); the seed decides the
\* rest.  The result maps a client id to its sequence of operations.
GenWorkloads(r) ==
  LET keys == [i \in 0..(r.k + 2 - 1) |-> KeyName(i)]
      numClientsPerKey == r.c + 2
      opsPerClient == r.n + 128
      numKeys == r.k + 2
  IN  [clientId \in 0..(numKeys * numClientsPerKey - 1) |->
        [i \in 1..opsPerClient |->
          [ClientId |-> clientId,
           Op |-> ops[IntN(r.seed, 2 * (clientId * opsPerClient + i), Len(ops)) + 1],
           Key |-> keys[clientId % numKeys],
           Value |-> IF IntN(r.seed, 2 * (clientId * opsPerClient + i) + 1, 2) = 0
                     THEN "A" ELSE "B"]]]

\* r: the generator's numbers.  done, workloads: GenWorkloads has returned,
\* and what.
NoGen == [r |-> [k |-> 0, c |-> 0, n |-> 0, seed |-> 0], done |-> TRUE, workloads |-> <<>>]

GenCall ==
  /\ ~gen.done
  /\ gen' = [gen EXCEPT !.done = TRUE, !.workloads = GenWorkloads(gen.r)]
  /\ UNCHANGED <<cluster, cli, wl, srv, bucket, wire, mdl, twin, run, chk, sets>>

\* ------------------------------------------------------------ workload check

\* The bounds of the histories CheckWorkloads is given and of their length.
MaxHistories == 2
MaxHistoryLen == 2

\* An operation of a history, as far as CheckWorkloads looks at it itself:
\* the input's key and whether the output's error is nil.
HistoryOps == [Key : Keys, Err : {nil, errPutObject}]

\* The workloads: one history per client, none of them empty.
Histories == UNION {[1..n -> HistoryOps] : n \in 1..MaxHistoryLen}

\* The histories one after the other, as the two loops go through them.
RECURSIVE Flatten(_)
Flatten(workloads) ==
  IF workloads = <<>> THEN <<>>
  ELSE Head(workloads) \o Flatten(Tail(workloads))

\* The map partitioned: for every key that an operation has, the operations
\* with that key.
Partitioned(workloads) ==
  LET all == Flatten(workloads)
  IN  [k \in {all[i].Key : i \in DOMAIN all} |->
         SelectSeq(all, LAMBDA o : o.Key = k)]

\* A fraction.
Ratio(num, den) == [num |-> num, den |-> den]

\* CheckWorkloads on the workloads, given porcupine's verdict on every
\* partition: what it may return (the order of the map and the result of
\* porcupine.Visualize are open), with the map it built.
Check(workloads, verdict) ==
  LET all == Flatten(workloads)
      partitioned == Partitioned(workloads)
      progress == Ratio(Len(SelectSeq(all, LAMBDA o : o.Err = nil)), Len(all))
  IN  IF \A k \in DOMAIN partitioned : verdict[k] = "Ok"
      THEN {[progress |-> progress, err |-> NoError, partitioned |-> partitioned]}
      ELSE {[progress |-> Ratio(0, 1), err |-> e, partitioned |-> partitioned] :
              e \in UNION {IF verdict[k] = "Ok" THEN {}
                           ELSE IF verdict[k] = "Unknown" THEN {Error(k, TRUE)}
                           ELSE {Error(k, FALSE), errVisualize} : k \in DOMAIN partitioned}}

\* workloads, verdict: what CheckWorkloads is given.  done, ret: it has
\* returned, and what.
NoChk ==
  [workloads |-> <<>>, verdict |-> [k \in Keys |-> "Ok"], done |-> TRUE,
   ret |-> [progress |-> Ratio(0, 1), err |-> NoError, partitioned |-> <<>>]]

CheckCall ==
  /\ ~chk.done
  /\ \E ret \in Check(chk.workloads, chk.verdict) :
       chk' = [chk EXCEPT !.done = TRUE, !.ret = ret]
  /\ UNCHANGED <<cluster, cli, wl, srv, bucket, wire, mdl, twin, run, gen, sets>>

\* ------------------------------------------------------------ string set

\* The bound of the items passed to With and Without.
MaxSetItems == 2

\* The strings of the model in lexicographic order, and a string's place in it.
Strings == <<"", "A", "B">>
Rank(x) == CHOOSE i \in DOMAIN Strings : Strings[i] = x

\* sort.Strings.
RECURSIVE Insert(_, _)
Insert(x, sorted) ==
  IF sorted = <<>> THEN <<x>>
  ELSE IF Rank(x) <= Rank(Head(sorted)) THEN <<x>> \o sorted
  ELSE <<Head(sorted)>> \o Insert(x, Tail(sorted))

RECURSIVE SortStrings(_)
SortStrings(items) ==
  IF items = <<>> THEN <<>> ELSE Insert(Head(items), SortStrings(Tail(items)))

\* The keys of a map in the order a range loop happens to give them.
RECURSIVE Range(_)
Range(S) ==
  IF S = {} THEN <<>>
  ELSE LET x == CHOOSE x \in S : TRUE IN <<x>> \o Range(S \ {x})

\* The items of a variadic argument.
ItemsOf(items) == {items[i] : i \in DOMAIN items}

\* Set.Items: the keys of the map, sorted.
Items(S) == SortStrings(Range(S))

\* The methods on the heap of sets: heap[a] is the map of the Set at address a.
\* With copies the map, adds the items and returns a new Set.
SetWith(heap, s, items) ==
  [heap |-> Append(heap, heap[s] \cup ItemsOf(items)), ret |-> Len(heap) + 1]

\* A Without that deletes from the receiver's map.
SetWithoutInPlace(heap, s, items) ==
  [heap |-> [heap EXCEPT ![s] = @ \ ItemsOf(items)], ret |-> s]

\* Without copies the map, deletes the items and returns a new Set.
SetWithout(heap, s, items) ==
  [heap |-> Append(heap, heap[s] \ ItemsOf(items)), ret |-> Len(heap) + 1]

\* The model's Equal on two states; address 0 is nil.
Equal(heap, left, right) ==
  IF left = 0 \/ right = 0 THEN left = right
  ELSE Items(heap[left]) = Items(heap[right])

SetMethods == {"With", "Without", "Items", "Equal"}

\* heap: the sets in memory.  method, s, other, items: a call on the set at
\* s.  done, ret, out, eq: the call has returned, the address, the slice or
\* the truth value it returned.  before: the heap at the call.
NoSets ==
  [heap |-> <<>>, before |-> <<>>, method |-> "none", s |-> 0, other |-> 0, items |-> <<>>,
   done |-> TRUE, ret |-> 0, out |-> <<>>, eq |-> FALSE]

SetCall ==
  /\ ~sets.done
  /\ sets' =
       CASE sets.method = "With" ->
              LET r == SetWith(sets.heap, sets.s, sets.items)
              IN  [sets EXCEPT !.done = TRUE, !.heap = r.heap, !.ret = r.ret]
         [] sets.method = "Without" ->
              LET r == SetWithout(sets.heap, sets.s, sets.items)
              IN  [sets EXCEPT !.done = TRUE, !.heap = r.heap, !.ret = r.ret]
         [] sets.method = "Items" ->
              [sets EXCEPT !.done = TRUE, !.out = Items(sets.heap[sets.s])]
         [] sets.method = "Equal" ->
              [sets EXCEPT !.done = TRUE, !.eq = Equal(sets.heap, sets.s, sets.other)]
  /\ UNCHANGED <<cluster, cli, wl, srv, bucket, wire, mdl, twin, run, gen, chk>>

\* ------------------------------------------------------------ specifications

InitBase ==
  /\ numServers \in 1..Cardinality(Nodes)
  /\ maxItems \in 1..MaxMaxItems
  /\ obj = NoObj
  /\ mu = [n \in Nodes |-> FALSE]
  /\ pc = [c \in Clients |-> "idle"]
  /\ req = [c \in Clients |-> NoReq]
  /\ loc = [c \in Clients |-> NoLoc]
  /\ resp = [c \in Clients |-> NoReply]
  /\ stat = [c \in Clients |-> NoStat]
  /\ hist = <<>>
  /\ nOps = 0
  /\ nFaults = 0
  /\ lastAck = NoAck
  /\ cleared = {}
  /\ test = NoTest
  /\ cli = NoCli
  /\ wl = NoWl
  /\ srv = NoSrv
  /\ bucket = FALSE
  /\ wire = NoWire
  /\ twin = NoTwin
  /\ run = NoRun

Init == InitBase /\ rec = FALSE /\ mdl = NoMdl /\ gen = NoGen /\ chk = NoChk /\ sets = NoSets

Next ==
  \E c \in Clients :
    \/ CallGet(c)
    \/ CallSet(c)
    \/ CallSetEmpty(c)
    \/ CallDel(c)
    \/ CallFlushAll(c)
    \/ Lock(c)
    \/ GetRead(c)
    \/ MutRead(c)
    \/ MutPut(c)
    \/ ReadFail(c)
    \/ PutFail(c)

Spec == Init /\ [][Next]_vars

\* A workload of GET, SET and DEL whose history is recorded, without failures.
\* The cluster under test holds more keys than the workload uses
\* (servertest.NewCluster: MaxItems 1024; GenWorkloads: 2-4 keys).
InitWorkload == InitBase /\ rec = TRUE /\ maxItems >= Cardinality(Keys) /\ mdl = NoMdl /\ gen = NoGen /\ chk = NoChk /\ sets = NoSets

NextWorkload ==
  \E c \in Clients :
    \/ CallGet(c)
    \/ CallSet(c)
    \/ CallDel(c)
    \/ Lock(c)
    \/ GetRead(c)
    \/ MutRead(c)
    \/ MutPut(c)

SpecWorkload == InitWorkload /\ [][NextWorkload]_vars

\* The same workload under object-store failures (fault injection).
NextFaulty ==
  \E c \in Clients :
    \/ CallGet(c)
    \/ CallSet(c)
    \/ CallDel(c)
    \/ Lock(c)
    \/ GetRead(c)
    \/ MutRead(c)
    \/ MutPut(c)
    \/ ReadFail(c)
    \/ PutFail(c)

SpecFaulty == InitWorkload /\ [][NextFaulty]_vars

\* A handler that can take a step eventually takes one: its goroutine is
\* scheduled and the object store answers.
Handler(c) == Lock(c) \/ GetRead(c) \/ MutRead(c) \/ MutPut(c)

SpecLive == SpecWorkload /\ \A c \in Clients : WF_vars(Handler(c))

\* One client and the calls it makes on its connection, whatever the server
\* and the network answer.
InitClient == Init /\ numServers = 1 /\ maxItems = 1

NextClient == ClientCall

SpecClient == InitClient /\ [][NextClient]_vars

\* The workload command, whatever the checker says of each run.
NextHarness == exerciseAndVerify

SpecHarness == InitClient /\ [][NextHarness]_vars

\* Every node's server from New to Close, whatever the object store answers
\* to CreateBucket.
InitServer == Init /\ numServers = Cardinality(Nodes) /\ maxItems = 1

NextServer == \E n \in Nodes : New(n) \/ Backoff(n) \/ ServeTCP(n) \/ Serve(n) \/ Close(n)

SpecServer == InitServer /\ [][NextServer]_vars

\* New's goroutine runs and the object store answers every CreateBucket.
SpecServerLive ==
  SpecServer /\ \A n \in Nodes : WF_vars(New(n)) /\ WF_vars(Backoff(n))

\* One node and the commands of every arity on its clients' connections.
NextProtocol ==
  \E c \in Clients :
    \/ handle(c)
    \/ wire[c].open /\ (CallGet(c) \/ CallSet(c) \/ CallSetEmpty(c) \/ CallDel(c) \/ CallFlushAll(c))
    \/ Lock(c)
    \/ GetRead(c)
    \/ MutRead(c)
    \/ MutPut(c)

SpecProtocol == InitClient /\ [][NextProtocol]_vars

\* newModel's Step on every state, input and output.
InitModel ==
  /\ InitBase /\ rec = FALSE /\ numServers = 1 /\ maxItems = 1 /\ gen = NoGen /\ chk = NoChk /\ sets = NoSets
  /\ \E S \in SUBSET ModelValues, in \in ModelArgs, out \in ModelRets :
       mdl = [NoMdl EXCEPT !.S = S, !.heap = <<S>>, !.in = in, !.out = out, !.done = FALSE]

NextModel == ModelStep

SpecModel == InitModel /\ [][NextModel]_vars

\* The never-created and the flushed database under the same commands.
NextTwin == TwinFlush \/ \E c \in Clients : TwinSend(c) \/ TwinRead(c) \/ TwinPut(c)

SpecTwin == Init /\ [][NextTwin]_vars

\* One iteration of the workload command while faults are injected and after.
NextIteration ==
  \/ Heal
  \/ FlushDial
  \/ FlushTry
  \/ FlushSleep
  \/ Spawn
  \/ CloseStart
  \/ \E i \in Workers : WorkerDial(i) \/ WorkerStart(i) \/ WorkerOp(i)
  \/ WaitDone

SpecIteration == InitClient /\ [][NextIteration]_vars

\* The main goroutine and the workload goroutines keep running, and a sleep
\* ends.
SpecIterationLive ==
  /\ SpecIteration
  /\ WF_vars(FlushDial) /\ WF_vars(FlushTry) /\ WF_vars(FlushSleep)
  /\ WF_vars(Spawn) /\ WF_vars(CloseStart) /\ WF_vars(WaitDone)
  /\ \A i \in Workers : WF_vars(WorkerDial(i)) /\ WF_vars(WorkerStart(i)) /\ WF_vars(WorkerOp(i))

\* GenWorkloads on every outcome of its first three numbers.
InitGen ==
  /\ InitBase /\ rec = FALSE /\ numServers = 1 /\ maxItems = 1 /\ mdl = NoMdl /\ chk = NoChk /\ sets = NoSets
  /\ \E k \in 0..2, c \in 0..2, n \in 0..127, seed \in 0..MaxSeed :
       gen = [NoGen EXCEPT !.r = [k |-> k, c |-> c, n |-> n, seed |-> seed], !.done = FALSE]

NextGen == GenCall

SpecGen == InitGen /\ [][NextGen]_vars

\* CheckWorkloads on every small set of histories and every verdict.
InitCheck ==
  /\ InitBase /\ rec = FALSE /\ numServers = 1 /\ maxItems = 1 /\ mdl = NoMdl /\ gen = NoGen /\ sets = NoSets
  /\ \E n \in 1..MaxHistories :
       \E workloads \in [1..n -> Histories], verdict \in [Keys -> Verdicts] :
         chk = [NoChk EXCEPT !.workloads = workloads, !.verdict = verdict, !.done = FALSE]

NextCheck == CheckCall

SpecCheck == InitCheck /\ [][NextCheck]_vars

\* The set's methods on every pair of sets and every list of items.
InitSets ==
  /\ InitBase /\ rec = FALSE /\ numServers = 1 /\ maxItems = 1
  /\ mdl = NoMdl /\ gen = NoGen /\ chk = NoChk
  /\ \E S, T \in SUBSET ModelValues, method \in SetMethods, other \in 0..2 :
       \E items \in UNION {[1..n -> ModelValues] : n \in 0..MaxSetItems} :
         /\ method \in {"With", "Without"} \/ items = <<>>
         /\ method = "Equal" \/ other = 0
         /\ sets = [NoSets EXCEPT !.heap = <<S, T>>, !.before = <<S, T>>, !.method = method,
                                  !.s = IF method = "Equal" /\ other = 0 THEN 0 ELSE 1,
                                  !.other = other, !.items = items, !.done = FALSE]

NextSets == SetCall

SpecSets == InitSets /\ [][NextSets]_vars

\* TestConditionalWrite: the storage engine driven directly.
NextStorage == TestSetDB \/ TestGetDB

SpecStorage == Init /\ [][NextStorage]_vars

\* ------------------------------------------------------------------ claims

AllIdle == \A c \in Clients : pc[c] = "idle"
Overlap(i, j) == i # j /\ ~Precedes(i, j) /\ ~Precedes(j, i)

\* C1: when a workload of GET, SET (non-empty value) and DEL from clients on
\* different nodes has finished against an initially absent object, the
\* recorded history of every key is linearizable with respect to the
\* reference model started in the empty state.
C1_HistoryLinearizable ==
  AllIdle => \A k \in Keys : Linearizable(newSet, Partition(k))

\* A finished workload in which three operations on one key were recorded,
\* two of them overlapping, and a write went through an ETag mismatch.
C1_Witness ==
  /\ AllIdle
  /\ \E k \in Keys :
       /\ Cardinality(Partition(k)) = 3
       /\ \E i, j \in Partition(k) : Overlap(i, j)
  /\ \E c \in Clients : stat[c].mismatches > 0

\* A handler's GET returns a reply that is not an error.
GetReturns(c) ==
  pc[c] = "read" /\ req[c].op = "get" /\ pc'[c] = "idle" /\ resp'[c].t # "error"
\* A handler's MutateDB returns (n, nil) and the reply is written.
MutateReturns(c) == pc[c] = "put" /\ pc'[c] = "idle" /\ resp'[c].t # "error"
RepliedOK(c) == pc[c] = "idle" /\ resp[c] = ReplyString("OK")

\* C2: no lost updates.  Every change of the database object is the PUT of
\* one handler's MutateDB, and it writes the result of that call's callback
\* applied to the contents of the version that was current just before it;
\* every MutateDB that returns without error has made such a change.
C2_NoLostUpdate ==
  [][/\ obj' # obj =>
          \E c \in Clients :
            /\ pc[c] = "put" /\ pc'[c] = "idle"
            /\ LET cb == Callback(req[c], getDB(obj).items)
               IN  /\ cb.err = nil
                   /\ obj'.exists
                   /\ obj'.etag # obj.etag
                   /\ getDB(obj').items = cb.items
     /\ \A c \in Clients : MutateReturns(c) => obj' # obj]_vars

\* A SET that went through an ETag mismatch has replied OK and the database
\* holds both keys: the write that caused the mismatch was not overwritten.
C2_Witness ==
  \E c \in Clients :
    /\ RepliedOK(c) /\ req[c].op = "set"
    /\ stat[c].mismatches > 0
    /\ len(getDB(obj).items) = 2

\* C3: an ETag mismatch of the conditional PUT is never sent to a client as
\* an error reply, and after every mismatch MutateDB is back at its read,
\* still holding the mutex, with nothing replied.
C3_MismatchNeverSurfaces ==
  [][\A c \in Clients :
       /\ resp'[c] # ReplyErr(errMismatchedETag)
       /\ (pc[c] = "put" /\ pc'[c] # "put" /\ nFaults' = nFaults
             /\ setDB(obj, loc[c].items, loc[c].etag).err = errMismatchedETag)
          => /\ pc'[c] = "read"
             /\ mu'[NodeOf(c)]
             /\ resp'[c] = NoReply
             /\ obj' = obj]_vars

\* A MutateDB has returned without error after two consecutive mismatches.
C3_Witness ==
  \E c \in Clients :
    /\ pc[c] = "idle"
    /\ resp[c].t \in {"string", "int"}
    /\ stat[c].mismatches >= 2

\* C4: a GET of key k whose read finds the version made by an acknowledged
\* SET k v (reply OK) returns v, and one that finds the version made by an
\* acknowledged DEL k (reply :1) returns null, on any node.
C4_ReadsNotStale ==
  [][\A c \in Clients :
       (GetReturns(c) /\ lastAck.key = req[c].key) =>
         /\ lastAck.op = "set" => resp'[c] = ReplyBulk(lastAck.val)
         /\ (lastAck.op = "del" /\ lastAck.n = 1) => resp'[c] = ReplyNull]_vars

\* A GET on one node has returned the value that a SET on the other node
\* wrote into the version the GET read.
C4_Witness ==
  \E c \in Clients :
    /\ pc[c] = "idle" /\ req[c].op = "get"
    /\ lastAck.op = "set" /\ lastAck.key = req[c].key
    /\ NodeOf(lastAck.client) # NodeOf(c)
    /\ stat[c].read = obj.etag
    /\ resp[c] = ReplyBulk(lastAck.val)

\* C6: every attempt of MutateDB invokes the callback once, on a map equal to
\* the contents read in that attempt; so at the PUT, and at a return without
\* error, the callback has run once more than there were ETag mismatches.
C6_CallbackPerAttempt ==
  [][\A c \in Clients :
       /\ (pc[c] = "read" /\ pc'[c] = "put") =>
            /\ loc'[c].arg = getDB(obj).items
            /\ stat'[c].callbacks = stat[c].callbacks + 1
            /\ stat'[c].callbacks = stat'[c].mismatches + 1
       /\ MutateReturns(c) => stat'[c].callbacks = stat'[c].mismatches + 1]_vars

\* A MutateDB has returned without error after exactly one mismatch and two
\* callback invocations.
C6_Witness ==
  \E c \in Clients :
    /\ pc[c] = "idle"
    /\ resp[c].t \in {"string", "int"}
    /\ stat[c].mismatches = 1
    /\ stat[c].callbacks = 2

\* C9: DEL k replies :1 exactly when k is in the version its successful PUT
\* replaces, which is the version its last attempt read, and :0 otherwise.
C9_DelCount ==
  [][\A c \in Clients :
       (MutateReturns(c) /\ req[c].op = "del") =>
         /\ loc[c].etag = obj.etag
         /\ resp'[c] = ReplyInt(IF req[c].key \in DOMAIN getDB(obj).items THEN 1 ELSE 0)]_vars

\* A DEL that went through an ETag mismatch has replied :1 while the other
\* node's SET of the same key has replied OK.
C9_Witness ==
  \E c, d \in Clients :
    /\ pc[c] = "idle" /\ req[c].op = "del" /\ resp[c] = ReplyInt(1)
    /\ stat[c].mismatches > 0
    /\ RepliedOK(d) /\ req[d].op = "set" /\ req[d].key = req[c].key

\* C10: a GET of a key that an acknowledged FLUSHALL emptied, with no SET of
\* that key committed since, returns null.
C10_FlushAllEmpties ==
  [][\A c \in Clients :
       (GetReturns(c) /\ req[c].key \in cleared) => resp'[c] = ReplyNull]_vars

\* A FLUSHALL that went through an ETag mismatch (another node's write
\* committed during it) has replied OK, and a GET that read the flushed
\* version has returned null.
C10_Witness ==
  \E c, d \in Clients :
    /\ RepliedOK(d) /\ req[d].op = "flushall" /\ stat[d].mismatches > 0
    /\ pc[c] = "idle" /\ req[c].op = "get" /\ req[c].key \in cleared
    /\ stat[c].read = obj.etag
    /\ resp[c] = ReplyNull

\* Some operation of the history returned an error other than key-not-found.
UnknownOutcome(i) ==
  i \in DOMAIN hist /\ hist[i].type = "ret" /\ hist[i].err \notin {nil, ErrNotFound}

\* C5: the reference model tolerates operations with unknown outcome.  When
\* a workload in which a GET, SET or DEL returned an error other than
\* key-not-found (its write applied or not) has finished, CheckWorkloads
\* accepts the history of every key.
C5_UnknownOutcomeAccepted ==
  (AllIdle /\ \E i \in DOMAIN hist : UnknownOutcome(i)) => CheckWorkloadsOk

\* The two SETs of the contention scenario were issued at the same time,
\* one on each node.
BothSetFoo ==
  /\ NodeOf(0) # NodeOf(1)
  /\ Len(hist) >= 2
  /\ hist[1] = CallEvent(0, [op |-> "set", key |-> "foo", val |-> "A"])
  /\ hist[2] = CallEvent(1, [op |-> "set", key |-> "foo", val |-> "B"])
\* Both have returned, and both without error.
BothOK ==
  /\ Len(hist) >= 4
  /\ \A i \in 3..4 : hist[i].type = "ret" /\ hist[i].op = "set" /\ hist[i].err = nil
\* Another command was issued before both had returned.
Intervened == \E i \in 3..4 : i <= Len(hist) /\ hist[i].type = "call"
\* A GET foo was issued after both returned, and returned with nothing else
\* issued in between.
FinalGetFoo ==
  /\ Len(hist) >= 6
  /\ hist[3].type = "ret" /\ hist[4].type = "ret"
  /\ hist[5].type = "call" /\ hist[5].op = "get" /\ hist[5].key = "foo"
  /\ hist[6].type = "ret"

\* C7: progress under contention, without object-store failures.  With
\* finitely many commands issued, eventually every handler has returned and
\* written its reply; when SET foo A
\* and SET foo B are issued together on the two nodes and nothing else is
\* issued meanwhile, both eventually reply OK, and a GET foo that follows on
\* either node returns A or B.
C7_ProgressUnderContention ==
  /\ <>[](AllIdle /\ (BothSetFoo => (BothOK \/ Intervened)))
  /\ []((BothSetFoo /\ FinalGetFoo) => (hist[6].err = nil /\ hist[6].val \in {"A", "B"}))

\* Both SETs replied OK, one of them after an ETag mismatch, and the GET
\* that followed returned one of the two values.
C7_Witness ==
  /\ BothSetFoo /\ BothOK /\ FinalGetFoo
  /\ hist[6].val \in {"A", "B"}
  /\ \E c \in Clients : req[c].op = "set" /\ stat[c].mismatches > 0

\* C8: conditional-write protocol of setDB.  A write with the empty ETag is
\* sent create-only and one with an ETag is sent with If-Match; it succeeds
\* exactly when the object is absent, respectively has that ETag.  Against an
\* existing object a failed write returns errMismatchedETag; a failed write
\* leaves the object as it was.  A successful write gives the object a
\* non-empty ETag different from the previous one, and a getDB that follows
\* returns the written mapping with that ETag.
C8_ConditionalWrite ==
  test.set.op = "setDB" =>
    LET w == test.set
        input == PutInput(w.items, w.etag)
    IN  /\ w.etag = NoETag => (input.IfNoneMatch = "*" /\ input.IfMatch = NoETag)
        /\ w.etag # NoETag => (input.IfNoneMatch = "" /\ input.IfMatch = w.etag)
        /\ w.err = nil <=> IF w.etag = NoETag
                           THEN ~w.pre.exists
                           ELSE w.pre.exists /\ w.pre.etag = w.etag
        /\ w.err # nil => obj = w.pre
        /\ (w.err # nil /\ w.pre.exists) => w.err = errMismatchedETag
        /\ w.err = nil =>
             /\ obj.etag # NoETag
             /\ obj.etag # w.pre.etag
             /\ test.get.op = "getDB" =>
                  /\ test.get.err = nil
                  /\ test.get.items = w.items
                  /\ test.get.etag = obj.etag

\* After a write was refused, a write with the current ETag replaced an
\* existing object and getDB has read it back.
C8_Witness ==
  /\ test.mismatched
  /\ test.set.op = "setDB" /\ test.set.err = nil
  /\ test.set.pre.exists
  /\ test.get.op = "getDB"
  /\ test.get.items = test.set.items

\* C11: capacity bound.  With the same maxItems on every node, the database
\* object holds at most maxItems keys in every reachable state.
C11_CapacityBound ==
  obj.exists => len(getDB(obj).items) <= maxItems

\* With fewer keys allowed than clients use, the database is full, one
\* node's SET of a new key replied OK, and the other node's concurrent SET
\* of another new key was refused on its retry.
C11_Witness ==
  /\ maxItems < Cardinality(Keys)
  /\ len(getDB(obj).items) = maxItems
  /\ \E c, d \in Clients :
       /\ RepliedOK(d) /\ req[d].op = "set"
       /\ pc[c] = "idle" /\ req[c].op = "set"
       /\ req[c].key \notin DOMAIN getDB(obj).items
       /\ stat[c].mismatches > 0
       /\ resp[c] = ReplyErr(errMaxCapacity)

\* The handler of c leaves its read without an object-store failure.
ReadDone(c) == pc[c] = "read" /\ pc'[c] # "read" /\ nFaults' = nFaults

\* C12: a SET whose attempt reads a version holding at least maxItems keys
\* is refused with the capacity error, also when its key is in that version;
\* it writes nothing and the object and its ETag stay as they were.
C12_SetRefusedAtCapacity ==
  [][\A c \in Clients :
       (ReadDone(c) /\ req[c].op = "set" /\ len(getDB(obj).items) >= maxItems) =>
         /\ pc'[c] = "idle"
         /\ resp'[c] = ReplyErr(errMaxCapacity)
         /\ obj' = obj]_vars

\* A SET of a key that the full database already holds has been refused,
\* and the object is the version that SET read.
C12_Witness ==
  \E c \in Clients :
    /\ pc[c] = "idle" /\ req[c].op = "set"
    /\ resp[c] = ReplyErr(errMaxCapacity)
    /\ req[c].key \in DOMAIN getDB(obj).items
    /\ len(getDB(obj).items) = maxItems
    /\ stat[c].read = obj.etag

\* C13 as stated: at capacity a SET of a key that is present still succeeds
\* and only a SET of a new key is refused.  So a SET that was refused for
\* capacity, with the version it read still current, is for a key that is
\* not in the database.
C13_OnlyNewKeysRefused ==
  \A c \in Clients :
    (/\ pc[c] = "idle" /\ req[c].op = "set"
     /\ resp[c] = ReplyErr(errMaxCapacity)
     /\ stat[c].read = obj.etag)
    => req[c].key \notin DOMAIN getDB(obj).items

\* C13 amended: a SET of a key that is in the version read overwrites its
\* value only while that version holds fewer than maxItems keys; when it
\* holds maxItems keys the SET is refused with the capacity error and the
\* key keeps its value.
C13_UpdateOnlyBelowCapacity ==
  [][\A c \in Clients :
       LET items == getDB(obj).items
           k == req[c].key
       IN  (ReadDone(c) /\ req[c].op = "set" /\ k \in DOMAIN items) =>
             IF len(items) < maxItems
             THEN /\ pc'[c] = "put"
                  /\ loc'[c].items = MapSet(items, k, req[c].val)
                  /\ loc'[c].etag = obj.etag
             ELSE /\ pc'[c] = "idle"
                  /\ resp'[c] = ReplyErr(errMaxCapacity)
                  /\ getDB(obj').items[k] = items[k]]_vars

\* A SET that would have changed the value of a key of the full database
\* has been refused and the key still has its old value.
C13_Witness ==
  \E c \in Clients :
    /\ pc[c] = "idle" /\ req[c].op = "set"
    /\ resp[c] = ReplyErr(errMaxCapacity)
    /\ stat[c].read = obj.etag
    /\ req[c].key \in DOMAIN getDB(obj).items
    /\ getDB(obj).items[req[c].key] # req[c].val

\* The last command of c is SET k "".
SentEmpty(c) == req[c].op = "set" /\ req[c].val = ""

\* C14: SET k "" replies the empty-value error and changes no state.  The
\* handler of such a command is never at the mutex, the read or the PUT, so
\* it issues no object-store call; the step that takes the command leaves
\* the object, the mutexes and every handler's position as they were.
C14_EmptyValueRejected ==
  /\ [](\A c \in Clients :
          SentEmpty(c) => (pc[c] = "idle" /\ resp[c] = ReplyErr(errEmptyValue)))
  /\ [][\A c \in Clients :
          (SentEmpty(c)' /\ nOps' # nOps /\ (~SentEmpty(c) \/ pc' = pc)) =>
            UNCHANGED <<obj, mu, pc, loc>>]_vars

\* SET k "" was refused for a key the database holds, and the key still has
\* its non-empty value.
C14_Witness ==
  \E c \in Clients :
    /\ SentEmpty(c) /\ resp[c] = ReplyErr(errEmptyValue)
    /\ req[c].key \in DOMAIN getDB(obj).items
    /\ getDB(obj).items[req[c].key] # ""

\* C15: every value in the database object is a non-empty string, and no
\* GET has replied that the database contains an empty value.
C15_ValuesNonEmpty ==
  /\ \A k \in DOMAIN getDB(obj).items : getDB(obj).items[k] # ""
  /\ \A c \in Clients : resp[c] # ReplyErr("database contains empty value")

\* One client's SET k "" was refused and the other's GET k, reading the
\* current version, returned the key's value.
C15_Witness ==
  \E c, d \in Clients :
    /\ SentEmpty(c) /\ pc[c] = "idle"
    /\ pc[d] = "idle" /\ req[d].op = "get" /\ req[d].key = req[c].key
    /\ stat[d].read = obj.etag
    /\ resp[d].t = "bulk" /\ resp[d].s # ""

\* C16: when the callback returns an error, MutateDB returns that error: the
\* attempt issues no PUT, there is no further attempt, the mutex is released,
\* the reply is the error and the object and its ETag are unchanged.
C16_CallbackErrorAborts ==
  [][\A c \in Clients :
       LET cb == Callback(req[c], getDB(obj).items)
       IN  (ReadDone(c) /\ req[c].op \in {"set", "del", "flushall"} /\ cb.err # nil) =>
             /\ pc'[c] = "idle"
             /\ resp'[c] = ReplyErr(cb.err)
             /\ ~mu'[NodeOf(c)]
             /\ stat'[c].callbacks = stat[c].callbacks + 1
             /\ obj' = obj]_vars

\* A MutateDB whose second attempt ended with the callback's error has
\* returned it: two invocations, one mismatch, the object as it was read.
C16_Witness ==
  \E c \in Clients :
    /\ pc[c] = "idle"
    /\ resp[c] = ReplyErr(errMaxCapacity)
    /\ stat[c].callbacks = 2 /\ stat[c].mismatches = 1
    /\ stat[c].read = obj.etag
    /\ ~mu[NodeOf(c)]

\* C17: only an ETag mismatch is retried.  When the object read fails (other
\* than for a missing object) or the PUT fails (other than with
\* PreconditionFailed), the call returns at once: the handler is done, the
\* mutex released, and the reply is the get-object or put-object error.
C17_OtherErrorsReturned ==
  [][nFaults' # nFaults =>
       /\ \E c \in Clients : pc'[c] # pc[c]
       /\ \A c \in Clients :
            pc'[c] # pc[c] =>
              /\ pc'[c] = "idle"
              /\ ~mu'[NodeOf(c)]
              /\ resp'[c] = ReplyErr(IF pc[c] = "read" THEN errGetObject ELSE errPutObject)]_vars

\* A MutateDB that had been retried after an ETag mismatch has returned the
\* put-object error of its second PUT.
C17_Witness ==
  \E c \in Clients :
    /\ pc[c] = "idle"
    /\ req[c].op \in {"set", "del", "flushall"}
    /\ resp[c] = ReplyErr(errPutObject)
    /\ stat[c].mismatches = 1 /\ stat[c].callbacks = 2

\* C18: a missing object is read as the empty mapping with the empty ETag
\* and no error.  While no write has committed, a GET replies null, the
\* callback of a MutateDB receives the empty map and its PUT is conditioned
\* on the empty ETag, and a DEL replies :0.
C18_MissingObjectIsEmpty ==
  [][\A c \in Clients :
       ~obj.exists =>
         /\ (ReadDone(c) /\ req[c].op = "get") =>
              (pc'[c] = "idle" /\ resp'[c] = ReplyNull)
         /\ (ReadDone(c) /\ req[c].op = "del") =>
              /\ pc'[c] = "put"
              /\ loc'[c] = [arg |-> EmptyDB, items |-> EmptyDB, etag |-> NoETag, n |-> 0]
         /\ (MutateReturns(c) /\ req[c].op = "del") => resp'[c] = ReplyInt(0)]_vars

\* A GET that read the missing object replied null, and a DEL whose PUT was
\* the first write ever committed replied :0.
C18_Witness ==
  \E c, d \in Clients :
    /\ pc[c] = "idle" /\ req[c].op = "get"
    /\ stat[c].read = NoETag /\ resp[c] = ReplyNull
    /\ pc[d] = "idle" /\ req[d].op = "del"
    /\ resp[d] = ReplyInt(0)
    /\ obj.exists /\ obj.etag = NewETag(NoObj)

\* The GetDB or MutateDB of c is between its first object-store call and its
\* return.
InStorage(c) == pc[c] \in {"read", "put"}
SameNode(c, d) == c # d /\ NodeOf(c) = NodeOf(d)

\* C19: a GetDB or MutateDB holds its node's mutex from its first read to
\* its return, across retries; at most one call of a node is in storage at
\* any time, and while a MutateDB is between the read and the PUT of an
\* attempt no other call of its node reads the object.
C19_MutexHeld ==
  /\ [](\A c \in Clients : InStorage(c) => mu[NodeOf(c)])
  /\ [](\A c, d \in Clients : SameNode(c, d) => ~(InStorage(c) /\ InStorage(d)))
  /\ [][\A c, d \in Clients :
          (SameNode(c, d) /\ pc[c] = "put") => ~ReadDone(d)]_vars

\* On a node with two clients, one MutateDB is between its read and its PUT
\* while the other client's command waits for the mutex.
C19_Witness ==
  \E c, d \in Clients :
    /\ SameNode(c, d)
    /\ pc[c] = "put"
    /\ pc[d] = "lock"
    /\ mu[NodeOf(c)]

\* C20: when another process modified the object between a server's read
\* and its conditional write while it handles a SET or DEL (the write met an
\* ETag mismatch), the client that sent the command receives an error.
C20_ConflictIsAnError ==
  \A c \in Clients :
    (pc[c] = "idle" /\ req[c].op \in {"set", "del"} /\ stat[c].mismatches > 0)
    => resp[c].t = "error"

\* C21: the database object does not exist until a SET has succeeded: the
\* only step that creates it is the PUT of a SET's MutateDB that read no
\* object and so sends If-None-Match: *.  (A PUT that the store applied
\* while the handler saw it fail counts as the SET's here.)
C21_CreatedBySetOnly ==
  [][(~obj.exists /\ obj'.exists) =>
       \E c \in Clients :
         /\ req[c].op = "set"
         /\ pc[c] = "put" /\ pc'[c] # "put"
         /\ loc[c].etag = NoETag
         /\ PutInput(loc[c].items, loc[c].etag).IfNoneMatch = "*"]_vars

\* C22: FLUSHALL deletes the database file: while the version that an
\* acknowledged FLUSHALL wrote is still the current one, the object does not
\* exist.
C22_FlushAllDeletes ==
  \A c \in Clients :
    (/\ RepliedOK(c) /\ req[c].op = "flushall"
     /\ obj.etag = NewETag([etag |-> stat[c].read]))
    => ~obj.exists

\* C23: after a transport-level error on the client's connection every later
\* Ping, Get, Set, Del and FlushAll returns 'conn unusable: <cause>' with the
\* cause of that error, and writes nothing to the socket.
C23_UnusableAfterTransportError ==
  [][(cli.fatal # nil /\ cli'.n # cli.n) =>
       (cli'.ret.Err = ConnUnusable(cli.fatal) /\ ~cli'.sent)]_vars

\* The last call's reply was decoded on a connection without an error.
Decoded(op, reply) == cli.op = op /\ cli.reply = reply /\ cli.fatal = nil

\* C27: how the typed client decodes replies.  Get: null is ErrNotFound, a
\* bulk string is (string, nil).  Del: :0 is ErrNotFound, :1 is nil, more
\* than 1 is a protocol error.  Set: +OK is nil and every other reply is an
\* error.
C27_ReplyDecoding ==
  /\ Decoded("get", ReplyNull) => cli.ret = [Value |-> "", Err |-> ErrNotFound]
  /\ \A v \in Values :
       Decoded("get", ReplyBulk(v)) => cli.ret = [Value |-> v, Err |-> nil]
  /\ Decoded("del", ReplyInt(0)) => cli.ret.Err = ErrNotFound
  /\ Decoded("del", ReplyInt(1)) => cli.ret.Err = nil
  /\ \A reply \in Replies :
       (reply.t = "int" /\ reply.n > 1 /\ Decoded("del", reply)) =>
         cli.ret.Err \notin {nil, ErrNotFound}
  /\ Decoded("set", ReplyString("OK")) => cli.ret.Err = nil
  /\ \A reply \in Replies \ {ReplyString("OK")} :
       Decoded("set", reply) => cli.ret.Err # nil

\* A DEL was answered :2 and the client reported a protocol error.
C27_Witness ==
  /\ Decoded("del", ReplyInt(2))
  /\ cli.ret.Err = "server returned more than 1 for single-key DEL"

\* C24: a model-check timeout is not a system failure.  When the checker
\* answers Unknown for a key, CheckWorkloads returns an Error with TimedOut
\* and that key, and the workload command reports no property violation,
\* does not fail, and goes on to its next iteration.
C24_TimeoutIsNotAFailure ==
  /\ \A verdict \in [Keys -> Verdicts] : \A k \in Keys :
       (verdict[k] = "Unknown" /\ \A j \in Keys \ {k} : verdict[j] = "Ok") =>
         CheckWorkloads(verdict) = {Error(k, TRUE)}
  /\ [][(wl' # wl /\ wl'.err.TimedOut) =>
          /\ wl'.unreachable = wl.unreachable
          /\ ~wl'.panicked
          /\ wl'.iteration = wl.iteration + 1]_vars

\* A Close call of node n returns.
Closes(n) == srv'[n].closes # srv[n].closes

\* C25: Server.Close is idempotent and safe before serving.  Called before
\* ServeTCP it returns nil and changes nothing; called again after the server
\* was shut down it returns no error and leaves the server shut down.
C25_CloseIdempotent ==
  [][\A n \in Nodes :
       Closes(n) =>
         /\ srv'[n].ret = nil
         /\ srv[n].pc = "built" => (srv'[n].pc = "built" /\ ~srv'[n].close)
         /\ srv[n].pc = "stopped" => srv'[n].pc = "stopped"]_vars

\* New has returned node n's Server.
Built(n) == srv[n].pc \notin {"new", "backoff"}

\* C28: New never fails and does not return until bucket creation has
\* succeeded, BucketAlreadyOwnedByYou counting as success; after every other
\* error it sleeps one second and tries again, however often the store
\* refuses; once the store accepts, New returns.
C28_NewWaitsForBucket ==
  /\ [](\A n \in Nodes :
          /\ srv[n].pc \in {"new", "backoff", "built", "starting", "serving", "stopped"}
          /\ Built(n) => bucket
          /\ srv[n].slept =
               backoff * (IF srv[n].pc = "backoff" THEN srv[n].fails - 1 ELSE srv[n].fails))
  /\ [][\A n \in Nodes :
          /\ (srv[n].pc = "new" /\ srv'[n].fails # srv[n].fails) => srv'[n].pc = "backoff"
          /\ (srv[n].pc = "new" /\ srv'[n] # srv[n] /\ srv'[n].fails = srv[n].fails) =>
               srv'[n].pc = "built"
          /\ (srv[n].pc = "backoff" /\ srv'[n] # srv[n]) => srv'[n].pc = "new"]_vars
  /\ \A n \in Nodes : <>Built(n)

\* Every node's New has returned, one of them after the store refused the
\* bucket creation as often as it may, and one without creating the bucket
\* itself.
C28_Witness ==
  /\ \A n \in Nodes : Built(n)
  /\ \E n \in Nodes : srv[n].fails = MaxBucketFaults /\ srv[n].slept = MaxBucketFaults * backoff
  /\ \E n \in Nodes : srv[n].fails = 0

\* C26: a command with the wrong number of arguments (get other than 1, set
\* other than 2, del other than 1, flushall, ping and quit more than 0) is
\* answered with the arity error of its operation, touches no storage, and
\* leaves the connection open.
C26_ArityErrors ==
  [][\A c \in Clients :
       LET name == wire'[c].name
           nargs == wire'[c].nargs
       IN  (/\ wire'[c].n # wire[c].n
            /\ \/ BadArity(name, nargs)
               \/ name \in {"ping", "quit"} /\ nargs > 0) =>
             /\ resp'[c] = ReplyErr(errArity(name))
             /\ wire'[c].open
             /\ UNCHANGED <<obj, mu, pc, loc>>]_vars

\* The model has stepped over an operation op.
Stepped(op) == mdl.done /\ mdl.in.op = op

\* C29: the model's step for a get never changes the state, and is legal
\* exactly when the get returned no error and a value of the state S, or
\* returned ErrNotFound while S is empty or holds "", or returned any other
\* error.
C29_GetStep ==
  Stepped("get") =>
    /\ mdl.next = mdl.db
    /\ mdl.heap = <<mdl.S>>
    /\ mdl.ok <=>
         \/ mdl.out.Err = nil /\ mdl.out.Value \in mdl.S
         \/ mdl.out.Err = ErrNotFound /\ (mdl.S = {} \/ "" \in mdl.S)
         \/ mdl.out.Err \notin {nil, ErrNotFound}

\* A get that returned ErrNotFound was stepped over, legally, in a state that
\* holds "" and a value.
C29_Witness ==
  /\ Stepped("get") /\ mdl.out.Err = ErrNotFound
  /\ mdl.ok /\ "" \in mdl.S /\ mdl.S # {""}

\* C30: the model's steps for set and del are legal in every state.  A set
\* without error leads to {in.value}, a set with an error to S with in.value
\* added; a del without error leads to the empty set, a del with any error,
\* ErrNotFound too, to S with "" added.  The input state S is not modified.
C30_SetDelStep ==
  /\ Stepped("set") =>
       /\ mdl.ok
       /\ mdl.heap[mdl.next] =
            IF mdl.out.Err = nil THEN {mdl.in.val} ELSE mdl.S \cup {mdl.in.val}
       /\ mdl.heap[mdl.db] = mdl.S
  /\ Stepped("del") =>
       /\ mdl.ok
       /\ mdl.heap[mdl.next] = IF mdl.out.Err = nil THEN {} ELSE mdl.S \cup {""}
       /\ mdl.heap[mdl.db] = mdl.S

\* A del that returned ErrNotFound was stepped over in a state that held a
\* value and not "": the next state holds both, the input state is as it was.
C30_Witness ==
  /\ Stepped("del") /\ mdl.out.Err = ErrNotFound
  /\ mdl.S # {} /\ "" \notin mdl.S
  /\ mdl.next # mdl.db
  /\ mdl.heap[mdl.next] = mdl.S \cup {""}
  /\ mdl.heap[mdl.db] = mdl.S

\* No GetDB or MutateDB of node n is executing.
Quiet(n) == \A c \in Clients : NodeOf(c) = n => ~InStorage(c)

\* C35: every return path of GetDB and MutateDB (success, read error,
\* callback error, write error) releases the node's mutex: whenever no GetDB
\* or MutateDB of a node is executing, that node's mutex is free.
C35_MutexReleased ==
  \A n \in Nodes : Quiet(n) => ~mu[n]

\* A command failed with a write error, another with a callback error, on
\* the same node, and the node's mutex is free.
C35_Witness ==
  \E c, d \in Clients :
    /\ SameNode(c, d)
    /\ pc[c] = "idle" /\ resp[c] = ReplyErr(errPutObject)
    /\ pc[d] = "idle" /\ resp[d] = ReplyErr(errMaxCapacity)
    /\ ~mu[NodeOf(c)]

C34_FlushedLikeNeverCreated ==
  /\ twin.same
  /\ \A c \in Clients : twin.ra[c] = twin.rb[c]

\* Both sides have answered a GET with the value a SET wrote after the
\* FLUSHALL, a handler has met an ETag mismatch on the way, and the two
\* objects are not at the same ETag.
C34_Witness ==
  /\ twin.a.etag # twin.b.etag
  /\ twin.a.body = twin.b.body
  /\ twin.n = MaxOps
  /\ \E c \in Clients :
       /\ twin.pc[c] = "idle" /\ twin.req[c].op = "get"
       /\ twin.ra[c].t = "bulk" /\ twin.rb[c] = twin.ra[c]

\* C38: an error reply of the server (-ERR ...) does not make the client
\* unusable: the call returns that error, the client's unusable flag stays
\* unset, and the next call is sent to the server and can succeed.
C38_ErrorReplyKeepsClient ==
  [][/\ (cli'.n # cli.n /\ cli'.reply.t = "error") =>
          /\ cli'.ret.Err = cli'.reply.s
          /\ cli.connErr = nil /\ cli'.connErr = nil
     /\ (cli'.n # cli.n /\ cli.reply.t = "error" /\ cli.fatal = nil) =>
          /\ cli'.sent
          /\ \A reply \in Replies : cli'.reply = reply => 
                (cli'.fatal # nil \/ cli'.ret = Decode(cli'.op, reply))]_vars

\* A SET was refused with the capacity error, and the GET that followed on
\* the same client returned a value.
C38_Witness ==
  /\ cli.errs = 1 /\ cli.n = 2
  /\ cli.op = "get" /\ cli.sent /\ cli.reply = ReplyBulk("A")
  /\ cli.ret = [Value |-> "A", Err |-> nil]
  /\ cli.connErr = nil /\ cli.fatal = nil

\* A workload goroutine has issued an operation.
Issued(i) == run.ops[i] > 0

\* No workload client is dialled, and no workload operation issued, before
\* a FlushAll of the iteration has returned nil; a failed FlushAll is
\* followed by a sleep of a second and another FlushAll on the same client.
FlushBeforeWorkload ==
  /\ \A i \in Workers : run.w[i] # "none" => run.flushed
  /\ run.pc \in {"spawn", "close", "wait", "check"} => run.flushed
  /\ (run.pc = "flush" /\ run.err # nil) => (run.slept = backoff /\ run.client.id = run.dials)

\* C33: in each iteration no workload operation is issued before a FLUSHALL
\* of that iteration has replied OK: a failed FLUSHALL is retried after one
\* second on the same client until it succeeds, and only then are the
\* workload clients dialled and released, together, by the start signal: no
\* client issues an operation while another has yet to reach the signal.
C33_FlushThenReleaseTogether ==
  /\ FlushBeforeWorkload
  /\ \A i \in Workers : Issued(i) => (run.start /\ \A j \in Workers : run.w[j] # "dial")

\* C39: once every node and the object store work without faults, the
\* FLUSHALL retry loop of the iteration eventually succeeds and the iteration
\* runs its workload, whatever errors the loop's client has seen before.
C39_FlushLoopRecovers == run.healthy ~> (run.flushed /\ run.pc = "check")

\* The keys of the operations of client i in the generated workloads.
KeysOf(i) == {gen.workloads[i][j].Key : j \in DOMAIN gen.workloads[i]}

\* The clients that have an operation on key k.
ClientsOf(k) == {i \in DOMAIN gen.workloads : k \in KeysOf(i)}

\* C32: in every generated workload each client's operations all target one
\* key, client i being bound to key i mod K, and every key is assigned
\* exactly C clients: K*C client histories, K and C each in 2..4, every
\* history of the same length N in 128..255.  So partitioning the histories
\* by key splits no client's history.
C32_OneKeyPerClient ==
  (gen.done /\ gen.workloads # <<>>) =>
    \E K \in 2..4, C \in 2..4, N \in 128..255 :
      /\ DOMAIN gen.workloads = 0..(K * C - 1)
      /\ \A i \in DOMAIN gen.workloads :
           /\ Len(gen.workloads[i]) = N
           /\ KeysOf(i) = {KeyName(i % K)}
           /\ \A j \in DOMAIN gen.workloads[i] : gen.workloads[i][j].ClientId = i
      /\ \A k \in 0..(K - 1) : Cardinality(ClientsOf(KeyName(k))) = C
      /\ \A i \in DOMAIN gen.workloads :
           Cardinality({k \in 0..(K - 1) : i \in ClientsOf(KeyName(k))}) = 1

\* Sixteen histories of 255 operations on four keys were generated; client
\* 5 works on key1 and reads and writes it.
C32_Witness ==
  /\ gen.done
  /\ DOMAIN gen.workloads = 0..15
  /\ Len(gen.workloads[5]) = 255
  /\ KeysOf(5) = {"key1"}
  /\ {"get", "set"} \subseteq {gen.workloads[5][j].Op : j \in 1..255}
  /\ ClientsOf("key1") = {1, 5, 9, 13}

\* CheckWorkloads has returned for a call with workloads.
Checked == chk.done /\ chk.workloads # <<>>

\* How many operations of the workloads have key k; how many have a nil error.
OpsOn(k) ==
  Cardinality({<<i, j>> \in (DOMAIN chk.workloads) \X (1..MaxHistoryLen) :
                 j \in DOMAIN chk.workloads[i] /\ chk.workloads[i][j].Key = k})
Successes ==
  Cardinality({<<i, j>> \in (DOMAIN chk.workloads) \X (1..MaxHistoryLen) :
                 j \in DOMAIN chk.workloads[i] /\ chk.workloads[i][j].Err = nil})
Total ==
  Cardinality({<<i, j>> \in (DOMAIN chk.workloads) \X (1..MaxHistoryLen) :
                 j \in DOMAIN chk.workloads[i]})

\* C31: CheckWorkloads puts every operation of every history into exactly
\* one partition, that of its input key.  It returns (successes/total, nil)
\* only if every partition is Ok, successes being the operations whose output
\* error is nil; otherwise it returns progress 0 and an Error that names a
\* key whose partition was not Ok, with TimedOut for Unknown and with a
\* visualization for Illegal.
C31_CheckWorkloads ==
  Checked =>
    LET ret == chk.ret
    IN  /\ \A k \in Keys :
             IF OpsOn(k) = 0 THEN k \notin DOMAIN ret.partitioned
             ELSE /\ k \in DOMAIN ret.partitioned
                  /\ Len(ret.partitioned[k]) = OpsOn(k)
                  /\ \A i \in DOMAIN ret.partitioned[k] : ret.partitioned[k][i].Key = k
        /\ IF \A k \in DOMAIN ret.partitioned : chk.verdict[k] = "Ok"
           THEN ret.err = NoError /\ ret.progress = Ratio(Successes, Total)
           ELSE /\ ret.progress = Ratio(0, 1)
                /\ ret.err.type = "Error"
                /\ ret.err.Key \in DOMAIN ret.partitioned
                /\ chk.verdict[ret.err.Key] # "Ok"
                /\ chk.verdict[ret.err.Key] = "Unknown" =>
                     (ret.err.TimedOut /\ ~ret.err.Visualization)
                /\ chk.verdict[ret.err.Key] = "Illegal" =>
                     (ret.err.Visualization /\ ~ret.err.TimedOut)

\* A method of the set has returned.
Called(method) == sets.done /\ sets.method = method

\* The sets that were in memory at the call are as they were.
ReceiverKept == SubSeq(sets.heap, 1, Len(sets.before)) = sets.before

\* C40: the string set is immutable.  With and Without return a new set and
\* never modify the receiver; Items returns the elements in ascending
\* lexicographic order without duplicates; and the model's Equal holds
\* exactly when the two sets have the same elements, so {} and {""} are
\* distinct.
C40_ImmutableSet ==
  /\ sets.done => ReceiverKept
  /\ Called("With") =>
       /\ sets.ret \notin DOMAIN sets.before
       /\ sets.heap[sets.ret] = sets.before[sets.s] \cup ItemsOf(sets.items)
  /\ Called("Without") =>
       /\ sets.ret \notin DOMAIN sets.before
       /\ sets.heap[sets.ret] = sets.before[sets.s] \ ItemsOf(sets.items)
  /\ Called("Items") =>
       /\ ItemsOf(sets.out) = sets.before[sets.s]
       /\ \A i, j \in DOMAIN sets.out : i < j => Rank(sets.out[i]) < Rank(sets.out[j])
  /\ (Called("Equal") /\ sets.s # 0 /\ sets.other # 0) =>
       (sets.eq <=> sets.before[sets.s] = sets.before[sets.other])
  /\ (Called("Equal") /\ sets.s # 0 /\ sets.other # 0
        /\ {sets.before[sets.s], sets.before[sets.other]} = {{}, {""}}) => ~sets.eq

\* Without("", "B") on {"", "A", "B"} has returned a new set {"A"}, and the
\* receiver still holds its three elements.
C40_Witness ==
  /\ Called("Without")
  /\ sets.before[sets.s] = {"", "A", "B"} /\ sets.items = <<"", "B">>
  /\ sets.ret = 3 /\ sets.heap[3] = {"A"}
  /\ sets.heap[sets.s] = {"", "A", "B"}

\* C37: a Close called before ServeTCP has stored its close function, also
\* while a ServeTCP is running that has not yet come to that point, returns
\* nil and stops nothing; the ServeTCP then goes on to serve, and serves
\* until a later Close.
C37_EarlyCloseStopsNothing ==
  [][\A n \in Nodes :
       /\ (Closes(n) /\ ~srv[n].close) =>
            /\ srv'[n].ret = nil
            /\ srv'[n].pc = srv[n].pc /\ ~srv'[n].close
       /\ (srv[n].pc = "starting" /\ srv'[n].pc # "starting") =>
            (srv'[n].pc = "serving" /\ srv'[n].close)
       /\ (srv[n].pc = "serving" /\ srv'[n].pc # "serving") => Closes(n)]_vars

\* Close was called while ServeTCP had not yet stored its close function and
\* returned nil; ServeTCP now serves.
C37_Witness ==
  \E n \in Nodes :
    /\ srv[n].closes = 1 /\ srv[n].at = "starting" /\ srv[n].ret = nil
    /\ srv[n].pc = "serving" /\ srv[n].close
====
